---- MODULE Spec2Model ----
(***************************************************************************)
(* Model of the OMI_V2 firmware: the PAM8403 PWM audio engine              *)
(* (pwm_audio.c), its sample codec, the anti-pop ramp timer callback, the  *)
(* chunked stream reassembler (speaker_pwm.c) and the numbered audio file  *)
(* store on the SD card.                                                   *)
(***************************************************************************)
EXTENDS Integers, Sequences, FiniteSets, TLC

(***************************************************************************)
(* Program constants                                                       *)
(***************************************************************************)
PWM_AUDIO_PWM_FREQ == 1000000
PWM_AUDIO_PERIOD_NS == 1000000000 \div PWM_AUDIO_PWM_FREQ
PWM_AUDIO_MAX_VOLUME == 180
PWM_AUDIO_MUTE_RAMP_STEPS == 20
PAM8403_GAIN_6DB == 0
PAM8403_GAIN_15DB == 1
PAM8403_GAIN_20DB == 2
PAM8403_GAIN_24DB == 3
ENODEV == 19
ENOMEM == 12
EIO == 5
BLOCK_COUNT == 2
MAX_BLOCK_SIZE == 10000
PACKET_SIZE == 400
\* static uint32_t file_num_array[2]
FILE_NUM_ARRAY_LEN == 2
SD_MOUNT_PT == "/SD:"

\* Value of a PWM channel or a GPIO pin that no driver call has written yet.
UNSET == -1

(***************************************************************************)
(* Bounds of the model                                                     *)
(***************************************************************************)
\* pwm_audio_set_volume and the sine self-test are called with the volumes
\* 50, ..., 50 * NumVolumeArgs besides 181 and 255.
NumVolumeArgs == 1
\* Number of samples of the longest buffer a self-test plays.
MaxTestSamples == 1
\* Number of driver calls (pwm_set, gpio_pin_configure_dt, gpio_pin_set_dt)
\* that fail in one run.
MaxDriverFaults == 1
\* Number of the five devices (two PWM channels, three GPIO pins) that the
\* devicetree of a build leaves out or that are not ready at boot.
MaxMissingDevices == 1
\* The conversion is applied to every sample from -NearZeroSamples to
\* NearZeroSamples and to the multiples of SampleStride.
NearZeroSamples == 200
SampleStride == 1024
\* The longest stream declares MaxDeclaredPackets packets and one byte.
MaxDeclaredPackets == 13
\* initialize_audio_file is called with the file numbers 0..MaxFileNum and
\* 100.
MaxFileNum == 5

\* A card holds up to MaxDirEntries audio files when it is mounted.
MaxDirEntries == 3
\* Number of samples of the longest buffer handed to pwm_audio_play and
\* pwm_audio_play_mono.
MaxPlaySamples == 3
\* Number of bytes of the longest content sd_card_create_file writes.
MaxContentLen == 2
\* Number of threads that call the self-tests.
MaxTestThreads == 3

(***************************************************************************)
(* C integer arithmetic                                                    *)
(***************************************************************************)
\* C's integer division truncates toward zero.
CDiv(a, b) == IF a >= 0 THEN a \div b ELSE -((-a) \div b)

\* Conversion of an int to uint8_t.
U8(x) == x % 256

(***************************************************************************)
(* Sample codec: audio_sample_to_pwm                                       *)
(***************************************************************************)
\* Mutant of ClipHigh: the scaled sample is not clipped at 127.
ClipHighMissing(scaled) == scaled

ClipHigh(scaled) == IF scaled > 127 THEN 127 ELSE scaled

ClipLow(scaled) == IF scaled < -128 THEN -128 ELSE scaled

\* Mutant of RailClampLow: the pulse width is not kept off the 0% rail.
RailClampLowMissing(pulse_width) == pulse_width

RailClampLow(pulse_width) ==
    IF pulse_width < PWM_AUDIO_PERIOD_NS \div 256
    THEN PWM_AUDIO_PERIOD_NS \div 256
    ELSE pulse_width

RailClampHigh(pulse_width) ==
    IF pulse_width > PWM_AUDIO_PERIOD_NS - (PWM_AUDIO_PERIOD_NS \div 256)
    THEN PWM_AUDIO_PERIOD_NS - (PWM_AUDIO_PERIOD_NS \div 256)
    ELSE pulse_width

\* Mutant of audio_sample_to_pwm: the sample is scaled by the largest volume
\* instead of the current one.
ConvertAtFullVolume(sample, volume) ==
    LET scaled ==
            ClipLow(ClipHigh(CDiv(sample * PWM_AUDIO_MAX_VOLUME, 256)))
        unsigned_sample == U8(scaled + 128)
        pulse_width == (unsigned_sample * PWM_AUDIO_PERIOD_NS) \div 256
    IN  RailClampHigh(RailClampLow(pulse_width))

audio_sample_to_pwm(sample, volume) ==
    LET scaled == ClipLow(ClipHigh(CDiv(sample * volume, 256)))
        unsigned_sample == U8(scaled + 128)
        pulse_width == (unsigned_sample * PWM_AUDIO_PERIOD_NS) \div 256
    IN  RailClampHigh(RailClampLow(pulse_width))

\* The exact 50% duty the engine writes as silence.
PWM_SILENCE == PWM_AUDIO_PERIOD_NS \div 2


(***************************************************************************)
(* State                                                                   *)
(***************************************************************************)
VARIABLES
    \* pwm_audio.c globals
    current_volume, is_muted, is_initialized,
    \* statics of mute_ramp_callback and the k_timer that drives it
    ramp_step, target_volume, ramping_to_mute, timer_running,
    \* hardware: duty of the two PWM channels, level of the shutdown pin (the
    \* gain pins are written and never read: their writes are in hw_log)
    pwm_l, pwm_r, shutdown_pin,
    \* devicetree readiness of the five devices, fixed at boot
    dev_ready,
    \* blocks of audio_mem_slab in use
    audio_slab_used,
    \* driver calls that may still fail in this run
    fault_budget,
    \* the calling thread: where it is, and the local of a running self-test
    pc, original_volume,
    \* observation: last step taken, its argument, the value it returned and
    \* the driver writes it issued; last accepted mute/unmute request and the
    \* ramp ticks delivered since it with no other call in between
    ev, arg, ret, hw_log, req, quiet_ticks,
    \* audio_sample_to_pwm applied on its own: its argument and its result
    sample, pulse_width,
    \* speaker_pwm.c statics: the two slab blocks (rx_buffer, buzz_buffer),
    \* the write cursor, the pointer the buffer is cleared through, and the
    \* bytes still expected (offset is written and never read: not modelled)
    mem_slab_used, rx_buffer, ptr2, clear_ptr, current_length,
    \* contents of the working buffer: slots below rx_dirty hold chunk data,
    \* the slots from rx_dirty on are zero
    rx_dirty,
    \* speak has stored or loaded through a null pointer, or stored outside
    \* the working buffer
    wild_access,
    \* observation of the stream since the last control chunk: the length it
    \* declared, the data bytes handed to speak (declared + 1 standing for
    \* any larger number), whether every data chunk was PACKET_SIZE long, the
    \* playbacks started and the size of the last one
    declared, delivered, only_packets, play_count, play_samples,
    \* SD card driver statics
    sd_card_state, file_count, current_read_file, current_write_file,
    read_buffer, write_buffer,
    \* the card: whether one is inserted, whether the audio directory exists
    \* and the paths of the files on it
    card_present, audio_dir, fs_files,
    \* observation: the last result of generate_new_audio_header, and the
    \* indexes of file_num_array the last get_file_contents stored at
    last_header, file_num_writes,
    \* observation: what the last file-store operation did with the name
    \* buffers it got from generate_new_audio_header, in order
    heap_log,
    \* the card: the bytes of the files of its root directory (info.txt and
    \* the files of sd_card_create_file), by path
    fs_data,
    \* observation: the buffer sd_card_read_file has filled, the content the
    \* last sd_card_create_file was called with and the offset the last
    \* save_offset was called with
    read_back, written, saved,
    \* a thread inside pwm_audio_play or pwm_audio_play_mono: where it is,
    \* which of the two it called, its buffer and its loop index i
    play_pc, play_kind, play_buf, play_i,
    \* observation: PWM writes the drivers accepted from the running call
    play_emitted,
    \* the threads that run self-tests: for each the self-test it is inside
    \* ("idle" when in none) and the local original_volume of a sine test
    tests

engine_vars == <<current_volume, is_muted, is_initialized, ramp_step,
                 target_volume, ramping_to_mute, timer_running, pwm_l, pwm_r,
                 shutdown_pin, dev_ready,
                 audio_slab_used, fault_budget, pc, original_volume,
                 ev, arg, ret, hw_log, req, quiet_ticks>>

codec_vars == <<sample, pulse_width>>

test_vars == <<tests>>

play_vars == <<play_pc, play_kind, play_buf, play_i, play_emitted,
               test_vars>>

stream_vars == <<mem_slab_used, rx_buffer, ptr2, clear_ptr, current_length,
                 rx_dirty, wild_access, declared, delivered, only_packets,
                 play_count, play_samples>>

record_vars == <<fs_data, read_back, written, saved>>

store_vars == <<sd_card_state, file_count, current_read_file,
                current_write_file, read_buffer, write_buffer, card_present,
                audio_dir, fs_files, last_header, file_num_writes,
                heap_log, record_vars>>

(***************************************************************************)
(* Driver calls: pwm_set, gpio_pin_configure_dt, gpio_pin_set_dt           *)
(***************************************************************************)
\* What a driver call may return: 0, or a negative errno.
DriverResults == {0, -EIO}

\* One entry of the log of driver writes: the device, the value, whether the
\* driver accepted it.
Wr(dev, val, err) == [dev |-> dev, val |-> val, ok |-> err = 0]

\* Level of a pin or duty of a channel after a write that returned err.
After(old, val, err) == IF err = 0 THEN val ELSE old

\* Number of writes of a log the driver rejected.
FailedWrites(log) == Cardinality({i \in DOMAIN log : ~log[i].ok})

\* The results the driver calls of one pwm_audio_init give, one per call site.
InitOutcomes ==
    [pwm_l : DriverResults, pwm_r : DriverResults, cfg_sd : DriverResults,
     cfg_g0 : DriverResults, cfg_g1 : DriverResults, set_g0 : DriverResults,
     set_g1 : DriverResults, wake : DriverResults]

NoFailure ==
    [pwm_l |-> 0, pwm_r |-> 0, cfg_sd |-> 0, cfg_g0 |-> 0, cfg_g1 |-> 0,
     set_g0 |-> 0, set_g1 |-> 0, wake |-> 0]

\* The part of the state a call works on, as a record.
Machine ==
    [l |-> pwm_l, r |-> pwm_r, sd |-> shutdown_pin, muted |-> is_muted,
     initialized |-> is_initialized, log |-> <<>>, ret |-> 0]

(***************************************************************************)
(* Amplifier gain controller                                               *)
(***************************************************************************)
\* Mutant of pam8403_set_gain: a level above 3 is not replaced by the default.
SetGainUncoerced(gain_level, o, st) ==
    LET bit0 == gain_level % 2
        bit1 == (gain_level \div 2) % 2
        s1 == IF dev_ready.gain0
              THEN [st EXCEPT !.log = Append(@, Wr("gain0", bit0, o.set_g0))]
              ELSE st
    IN  IF dev_ready.gain1
        THEN [s1 EXCEPT !.log = Append(@, Wr("gain1", bit1, o.set_g1))]
        ELSE s1

pam8403_set_gain(gain_level, o, st) ==
    LET level == IF gain_level > 3 THEN 1 ELSE gain_level
        bit0 == level % 2
        bit1 == (level \div 2) % 2
        s1 == IF dev_ready.gain0
              THEN [st EXCEPT !.log = Append(@, Wr("gain0", bit0, o.set_g0))]
              ELSE st
    IN  IF dev_ready.gain1
        THEN [s1 EXCEPT !.log = Append(@, Wr("gain1", bit1, o.set_g1))]
        ELSE s1

pam8403_wakeup(o, st) ==
    [st EXCEPT !.sd = After(@, 1, o.wake),
               !.log = Append(@, Wr("shutdown", 1, o.wake))]

pam8403_init(o, st) ==
    IF ~dev_ready.shutdown
    THEN [st EXCEPT !.ret = -ENODEV]
    ELSE LET s0 == [st EXCEPT !.sd = After(@, 0, o.cfg_sd),
                              !.log = Append(@, Wr("shutdown_cfg", 0, o.cfg_sd))]
             s1 == IF dev_ready.gain0
                   THEN [s0 EXCEPT !.log = Append(@, Wr("gain0_cfg", 0, o.cfg_g0))]
                   ELSE s0
             s2 == IF dev_ready.gain1
                   THEN [s1 EXCEPT !.log = Append(@, Wr("gain1_cfg", 0, o.cfg_g1))]
                   ELSE s1
         IN  IF o.cfg_sd # 0
             THEN [s0 EXCEPT !.ret = o.cfg_sd]
             ELSE [pam8403_wakeup(o, pam8403_set_gain(PAM8403_GAIN_15DB, o, s2))
                      EXCEPT !.ret = 0]

(***************************************************************************)
(* PWM audio engine                                                        *)
(***************************************************************************)
\* Mutant of InitSequence: the result of the right channel's silence write is
\* not checked.
InitSequenceUncheckedRight(o, st) ==
    LET s1 == [st EXCEPT !.l = After(@, PWM_SILENCE, o.pwm_l),
                         !.log = Append(@, Wr("pwm_l", PWM_SILENCE, o.pwm_l))]
        s2 == [s1 EXCEPT !.r = After(@, PWM_SILENCE, o.pwm_r),
                         !.log = Append(@, Wr("pwm_r", PWM_SILENCE, o.pwm_r))]
        s3 == pam8403_init(o, s2)
    IN  IF o.pwm_l # 0 THEN [s1 EXCEPT !.ret = o.pwm_l]
        ELSE IF s3.ret # 0 THEN s3
        ELSE [s3 EXCEPT !.muted = TRUE, !.initialized = TRUE, !.ret = 0]

\* Mutant of InitSequence: the flags are set before pam8403_init has
\* reported its result.
InitSequenceFlagsEarly(o, st) ==
    LET s1 == [st EXCEPT !.l = After(@, PWM_SILENCE, o.pwm_l),
                         !.log = Append(@, Wr("pwm_l", PWM_SILENCE, o.pwm_l))]
        s2 == [s1 EXCEPT !.r = After(@, PWM_SILENCE, o.pwm_r),
                         !.log = Append(@, Wr("pwm_r", PWM_SILENCE, o.pwm_r))]
        s3 == pam8403_init(o, [s2 EXCEPT !.muted = TRUE,
                                         !.initialized = TRUE])
    IN  IF o.pwm_l # 0 THEN [s1 EXCEPT !.ret = o.pwm_l]
        ELSE IF o.pwm_r # 0 THEN [s2 EXCEPT !.ret = o.pwm_r]
        ELSE s3

\* pwm_audio_init from the point where both PWM devices were found ready.
InitSequence(o, st) ==
    LET s1 == [st EXCEPT !.l = After(@, PWM_SILENCE, o.pwm_l),
                         !.log = Append(@, Wr("pwm_l", PWM_SILENCE, o.pwm_l))]
        s2 == [s1 EXCEPT !.r = After(@, PWM_SILENCE, o.pwm_r),
                         !.log = Append(@, Wr("pwm_r", PWM_SILENCE, o.pwm_r))]
        s3 == pam8403_init(o, s2)
    IN  IF o.pwm_l # 0 THEN [s1 EXCEPT !.ret = o.pwm_l]
        ELSE IF o.pwm_r # 0 THEN [s2 EXCEPT !.ret = o.pwm_r]
        ELSE IF s3.ret # 0 THEN s3
        ELSE [s3 EXCEPT !.muted = TRUE, !.initialized = TRUE, !.ret = 0]

\* Mutant of AlreadyInitialized: the guard is missing.
InitGuardMissing(st) == FALSE

AlreadyInitialized(st) == st.initialized

pwm_audio_init(o, st) ==
    IF AlreadyInitialized(st) THEN [st EXCEPT !.ret = 0]
    ELSE IF ~dev_ready.pwm_l THEN [st EXCEPT !.ret = -ENODEV]
    ELSE IF ~dev_ready.pwm_r THEN [st EXCEPT !.ret = -ENODEV]
    ELSE InitSequence(o, st)

\* Mutant of ClampVolume: the argument is stored as it is.
ClampVolumeMissing(volume) == volume

\* The value pwm_audio_set_volume stores.
ClampVolume(volume) ==
    IF volume > PWM_AUDIO_MAX_VOLUME THEN PWM_AUDIO_MAX_VOLUME ELSE volume

\* The loop of pwm_audio_play_mono from sample i on; fail is the number of the
\* PWM write the driver rejects (0: none), counting two writes per sample.
RECURSIVE PlayMonoLoop(_, _, _, _, _)
PlayMonoLoop(buffer, i, volume, fail, st) ==
    IF i > Len(buffer) THEN [st EXCEPT !.ret = 0]
    ELSE LET pulse == audio_sample_to_pwm(buffer[i], volume)
             errL == IF fail = 2 * i - 1 THEN -EIO ELSE 0
             errR == IF fail = 2 * i THEN -EIO ELSE 0
             s1 == [st EXCEPT !.l = After(@, pulse, errL),
                              !.log = Append(@, Wr("pwm_l", pulse, errL))]
             s2 == [s1 EXCEPT !.r = After(@, pulse, errR),
                              !.log = Append(@, Wr("pwm_r", pulse, errR))]
         IN  IF errL # 0 THEN [s1 EXCEPT !.ret = errL]
             ELSE IF errR # 0 THEN [s2 EXCEPT !.ret = errR]
             ELSE PlayMonoLoop(buffer, i + 1, volume, fail, s2)

pwm_audio_play_mono(buffer, volume, fail, st) ==
    IF ~st.initialized THEN [st EXCEPT !.ret = -ENODEV]
    ELSE IF st.muted THEN [st EXCEPT !.ret = 0]
    ELSE PlayMonoLoop(buffer, 1, volume, fail, st)

(***************************************************************************)
(* Inputs                                                                  *)
(***************************************************************************)
\* Arguments of pwm_audio_set_volume and of the sine self-test (uint8_t).
VolumeArgs ==
    {50 * k : k \in 1..NumVolumeArgs} \cup {PWM_AUDIO_MAX_VOLUME + 1, 255}

\* Buffers pwm_audio_test_sine_wave generates: sample 0 is sin(0) = 0, the
\* others lie within the half amplitude 16384.
SineSamples == {-16384, 0, 16384}

TestBuffers ==
    {<<>>} \cup
    UNION {{<<0>> \o tail : tail \in [1..(n - 1) -> SineSamples]} :
              n \in 1..MaxTestSamples}

(***************************************************************************)
(* Engine actions                                                          *)
(***************************************************************************)
Devices == {"pwm_l", "pwm_r", "shutdown", "gain0", "gain1"}

\* Writes the state a call worked on back to the variables.
Commit(st) ==
    /\ FailedWrites(st.log) <= fault_budget
    /\ fault_budget' = fault_budget - FailedWrites(st.log)
    /\ pwm_l' = st.l
    /\ pwm_r' = st.r
    /\ shutdown_pin' = st.sd
    /\ is_muted' = st.muted
    /\ is_initialized' = st.initialized
    /\ hw_log' = st.log
    /\ ret' = st.ret

Init_call ==
    /\ pc = "idle"
    /\ \E o \in InitOutcomes :
          \* the results of driver calls that are not made do not matter
          /\ is_initialized => o = NoFailure
          /\ Commit(pwm_audio_init(o, Machine))
    /\ ev' = "init"
    /\ arg' = 0
    /\ req' = "none"
    /\ quiet_ticks' = 0
    /\ UNCHANGED <<current_volume, ramp_step, target_volume, ramping_to_mute,
                   timer_running, dev_ready, audio_slab_used, pc,
                   original_volume>>
    /\ UNCHANGED <<codec_vars, play_vars, stream_vars, store_vars>>

\* Mutant of MuteAccepted: the request is not compared with the muted flag.
MuteAlwaysAccepted(to_mute) == is_initialized

\* pwm_audio_mute and pwm_audio_unmute: to_mute is the state asked for.
MuteAccepted(to_mute) == is_initialized /\ is_muted # to_mute

SetMuted(to_mute) ==
    /\ pc = "idle"
    /\ is_muted' = IF MuteAccepted(to_mute) THEN to_mute ELSE is_muted
    /\ timer_running' = IF MuteAccepted(to_mute) THEN TRUE ELSE timer_running
    /\ req' = IF MuteAccepted(to_mute)
              THEN (IF to_mute THEN "mute" ELSE "unmute")
              ELSE "none"
    /\ quiet_ticks' = 0
    /\ ev' = IF to_mute THEN "mute" ELSE "unmute"
    /\ arg' = 0
    /\ ret' = 0
    /\ hw_log' = <<>>
    /\ UNCHANGED <<current_volume, is_initialized, ramp_step, target_volume,
                   ramping_to_mute, pwm_l, pwm_r, shutdown_pin, dev_ready,
                   audio_slab_used, fault_budget, pc, original_volume>>
    /\ UNCHANGED <<codec_vars, play_vars, stream_vars, store_vars>>

Mute_call == SetMuted(TRUE)

Unmute_call == SetMuted(FALSE)

SetVolume_call ==
    /\ pc = "idle"
    /\ \E volume \in VolumeArgs :
          /\ current_volume' = ClampVolume(volume)
          /\ arg' = volume
    /\ ev' = "set_volume"
    /\ ret' = 0
    /\ hw_log' = <<>>
    /\ req' = "none"
    /\ quiet_ticks' = 0
    /\ UNCHANGED <<is_muted, is_initialized, ramp_step, target_volume,
                   ramping_to_mute, timer_running, pwm_l, pwm_r, shutdown_pin,
                   dev_ready, audio_slab_used, fault_budget, pc,
                   original_volume>>
    /\ UNCHANGED <<codec_vars, play_vars, stream_vars, store_vars>>

\* mute_ramp_callback: one expiry of mute_ramp_timer.
RampDirection == IF ramp_step = 0 THEN is_muted ELSE ramping_to_mute

RampTarget ==
    IF ramp_step = 0
    THEN (IF is_muted THEN 0 ELSE PWM_AUDIO_MAX_VOLUME)
    ELSE target_volume

RampStepVolume ==
    LET step_volume == U8((RampTarget * ramp_step) \div PWM_AUDIO_MUTE_RAMP_STEPS)
    IN  IF RampDirection THEN U8(current_volume - step_volume) ELSE step_volume

\* Mutant of RampComplete: the ramp goes on for one tick more.
RampCompleteLate == U8(ramp_step + 1) > PWM_AUDIO_MUTE_RAMP_STEPS

RampComplete == U8(ramp_step + 1) >= PWM_AUDIO_MUTE_RAMP_STEPS

Tick ==
    /\ timer_running
    /\ target_volume' = RampTarget
    /\ ramping_to_mute' = RampDirection
    /\ current_volume' = ClampVolume(RampStepVolume)
    /\ ramp_step' = IF RampComplete THEN 0 ELSE U8(ramp_step + 1)
    /\ timer_running' = ~RampComplete
    /\ \E errL, errR \in DriverResults :
          LET silence == RampComplete /\ RampDirection
              log == IF silence
                     THEN <<Wr("pwm_l", PWM_SILENCE, errL),
                            Wr("pwm_r", PWM_SILENCE, errR)>>
                     ELSE <<>>
          IN  /\ ~silence => errL = 0 /\ errR = 0
              /\ FailedWrites(log) <= fault_budget
              /\ fault_budget' = fault_budget - FailedWrites(log)
              /\ pwm_l' = IF silence THEN After(pwm_l, PWM_SILENCE, errL)
                          ELSE pwm_l
              /\ pwm_r' = IF silence THEN After(pwm_r, PWM_SILENCE, errR)
                          ELSE pwm_r
              /\ hw_log' = log
    /\ ev' = "tick"
    /\ arg' = 0
    /\ ret' = 0
    /\ quiet_ticks' = IF req = "none" THEN 0 ELSE quiet_ticks + 1
    /\ UNCHANGED <<is_muted, is_initialized, shutdown_pin, dev_ready,
                   audio_slab_used, pc, original_volume, req>>
    /\ UNCHANGED <<codec_vars, play_vars, stream_vars, store_vars>>

\* pwm_audio_test_sine_wave up to the allocation of its buffer.
SineBegin_call ==
    /\ pc = "idle"
    /\ \E volume \in VolumeArgs :
          /\ arg' = volume
          /\ IF ~is_initialized
             THEN /\ ret' = -ENODEV
                  /\ UNCHANGED <<current_volume, original_volume,
                                 audio_slab_used, pc>>
             ELSE /\ current_volume' = ClampVolume(volume)
                  /\ IF audio_slab_used >= BLOCK_COUNT
                     THEN /\ ret' = -ENOMEM
                          /\ UNCHANGED <<original_volume, audio_slab_used, pc>>
                     ELSE /\ original_volume' = current_volume
                          /\ audio_slab_used' = audio_slab_used + 1
                          /\ pc' = "sine"
                          /\ ret' = 0
    /\ ev' = "sine_begin"
    /\ hw_log' = <<>>
    /\ req' = "none"
    /\ quiet_ticks' = 0
    /\ UNCHANGED <<is_muted, is_initialized, ramp_step, target_volume,
                   ramping_to_mute, timer_running, pwm_l, pwm_r, shutdown_pin,
                   dev_ready, fault_budget>>
    /\ UNCHANGED <<codec_vars, play_vars, stream_vars, store_vars>>

\* pwm_audio_test_sine_wave from the playback of its buffer to its return.
SineEnd_call ==
    /\ pc = "sine"
    /\ \E buffer \in TestBuffers :
          \E fail \in 0..(2 * Len(buffer)) :
             Commit(pwm_audio_play_mono(buffer, current_volume, fail, Machine))
    /\ audio_slab_used' = audio_slab_used - 1
    /\ current_volume' = ClampVolume(original_volume)
    /\ pc' = "idle"
    \* the local goes out of scope
    /\ original_volume' = 0
    /\ ev' = "sine_end"
    /\ arg' = 0
    /\ UNCHANGED <<ramp_step, target_volume, ramping_to_mute, timer_running,
                   dev_ready, req, quiet_ticks>>
    /\ UNCHANGED <<codec_vars, play_vars, stream_vars, store_vars>>

(***************************************************************************)
(* The three self-tests, called from several threads                       *)
(***************************************************************************)
TestThreads == 1..MaxTestThreads

TestKinds == {"sine", "sweep", "noise"}

NoTest == [at |-> "idle", original_volume |-> 0]

\* Mutant of SlabAvailable: k_mem_slab_alloc finds a block in a pool that has
\* none left.
SlabNeverEmpty(used) == TRUE

\* k_mem_slab_alloc(&audio_mem_slab, ..., K_NO_WAIT) returns 0.
SlabAvailable(used) == used < BLOCK_COUNT

\* Buffers the self-tests generate: a sine and a sweep start at sin(0) = 0;
\* the sweep stays within the quarter amplitude 8192; the noise is a random
\* int16_t divided by 4.
TestBuffersOf(kind) ==
    IF kind = "sine" THEN TestBuffers
    ELSE IF kind = "sweep"
    THEN {<<>>} \cup
         UNION {{<<0>> \o tail : tail \in [1..(n - 1) -> {8192}]} :
                   n \in 1..MaxTestSamples}
    ELSE UNION {[1..n -> {-8192, 8191}] : n \in 0..MaxTestSamples}

\* The volume a sine test is called with.
TestVolumes == {100}

\* What a self-test leaves alone.
TestFrame ==
    /\ req' = "none"
    /\ quiet_ticks' = 0
    /\ UNCHANGED <<ramp_step, target_volume, ramping_to_mute, timer_running,
                   dev_ready, pc, original_volume>>
    /\ UNCHANGED <<play_pc, play_kind, play_buf, play_i, play_emitted>>
    /\ UNCHANGED <<codec_vars, stream_vars, store_vars>>

\* A self-test up to the allocation of its buffer: pwm_audio_test_sine_wave
\* sets the volume first.
TestBegin_call ==
    /\ \E t \in TestThreads, kind \in TestKinds, volume \in TestVolumes :
          /\ tests[t].at = "idle"
          \* only pwm_audio_test_sine_wave takes a volume
          /\ arg' = IF kind = "sine" THEN volume ELSE 0
          /\ IF ~is_initialized
             THEN /\ ret' = -ENODEV
                  /\ UNCHANGED <<current_volume, audio_slab_used, tests>>
             ELSE /\ current_volume' =
                        IF kind = "sine" THEN ClampVolume(volume)
                        ELSE current_volume
                  /\ IF ~SlabAvailable(audio_slab_used)
                     THEN /\ ret' = -ENOMEM
                          /\ UNCHANGED <<audio_slab_used, tests>>
                     ELSE /\ audio_slab_used' = audio_slab_used + 1
                          /\ tests' = [tests EXCEPT ![t] =
                                 [at |-> kind,
                                  original_volume |->
                                      IF kind = "sine" THEN current_volume
                                      ELSE 0]]
                          /\ ret' = 0
    /\ ev' = "test_begin"
    /\ hw_log' = <<>>
    /\ UNCHANGED <<is_muted, is_initialized, pwm_l, pwm_r, shutdown_pin,
                   fault_budget>>
    /\ TestFrame

\* A self-test from the playback of its buffer to its return.
TestEnd_call ==
    /\ \E t \in TestThreads :
          /\ tests[t].at # "idle"
          /\ \E buffer \in TestBuffersOf(tests[t].at) :
                \E fail \in 0..(2 * Len(buffer)) :
                   Commit(pwm_audio_play_mono(buffer, current_volume, fail,
                                              Machine))
          /\ audio_slab_used' = audio_slab_used - 1
          /\ current_volume' =
                IF tests[t].at = "sine"
                THEN ClampVolume(tests[t].original_volume)
                ELSE current_volume
          /\ tests' = [tests EXCEPT ![t] = NoTest]
          /\ arg' = 0
    /\ ev' = "test_end"
    /\ TestFrame

(***************************************************************************)
(* pwm_audio_play and pwm_audio_play_mono, one loop iteration at a time    *)
(***************************************************************************)
\* The calls another thread makes while a playback runs come between two
\* iterations of the loop, where the playing thread waits 125 us.
PlayKinds == {"mono", "stereo"}

PlaySamples == {16384}

PlayBuffers == UNION {[1..n -> PlaySamples] : n \in 0..MaxPlaySamples}

\* Mutant of PlayProceeds: a playback starts on an engine that is not
\* initialized.
PlayIgnoresInit(st) == ~st.muted

\* Mutant of PlayProceeds: a playback starts on a muted engine.
PlayIgnoresMute(st) == st.initialized

\* Both calls go on to their loop when neither early return is taken.
PlayProceeds(st) == st.initialized /\ ~st.muted

\* What the early returns give.
PlayRefusal(st) == IF ~st.initialized THEN -ENODEV ELSE 0

\* Mutant of MonoLoopContinues: the loop ends when the engine is muted.
MonoLoopStopsOnMute(i, samples) == i < samples /\ ~is_muted

MonoLoopContinues(i, samples) == i < samples

StereoLoopContinues(i, samples) == i < samples /\ i + 1 < samples

\* Mutant of EmitPair: the right channel is written after a left write that
\* failed.
EmitPairAfterLeftFailure(left_pulse, right_pulse, errL, errR, st) ==
    LET s1 == [st EXCEPT !.l = After(@, left_pulse, errL),
                         !.log = Append(@, Wr("pwm_l", left_pulse, errL))]
        s2 == [s1 EXCEPT !.r = After(@, right_pulse, errR),
                         !.log = Append(@, Wr("pwm_r", right_pulse, errR))]
    IN  IF errL # 0 THEN [s2 EXCEPT !.ret = errL]
        ELSE IF errR # 0 THEN [s2 EXCEPT !.ret = errR]
        ELSE [s2 EXCEPT !.ret = 0]

\* The body of either loop: the left write, then the right write.
EmitPair(left_pulse, right_pulse, errL, errR, st) ==
    LET s1 == [st EXCEPT !.l = After(@, left_pulse, errL),
                         !.log = Append(@, Wr("pwm_l", left_pulse, errL))]
        s2 == [s1 EXCEPT !.r = After(@, right_pulse, errR),
                         !.log = Append(@, Wr("pwm_r", right_pulse, errR))]
    IN  IF errL # 0 THEN [s1 EXCEPT !.ret = errL]
        ELSE IF errR # 0 THEN [s2 EXCEPT !.ret = errR]
        ELSE [s2 EXCEPT !.ret = 0]

PlayFrame ==
    /\ arg' = 0
    /\ req' = "none"
    /\ quiet_ticks' = 0
    /\ UNCHANGED <<current_volume, ramp_step, target_volume, ramping_to_mute,
                   timer_running, dev_ready, audio_slab_used, pc,
                   original_volume, codec_vars, stream_vars, store_vars,
                   test_vars>>

\* Entry of pwm_audio_play(buffer, samples) or pwm_audio_play_mono(buffer,
\* samples) up to the loop.
PlayBegin_call ==
    /\ play_pc = "idle"
    /\ \E kind \in PlayKinds, buffer \in PlayBuffers :
          /\ play_kind' = kind
          /\ play_buf' = buffer
    /\ play_i' = 0
    /\ play_emitted' = 0
    /\ play_pc' = IF PlayProceeds(Machine) THEN "loop" ELSE "idle"
    /\ ret' = IF PlayProceeds(Machine) THEN 0 ELSE PlayRefusal(Machine)
    /\ hw_log' = <<>>
    /\ ev' = "play_begin"
    /\ PlayFrame
    /\ UNCHANGED <<is_muted, is_initialized, pwm_l, pwm_r, shutdown_pin,
                   fault_budget>>

\* One iteration of the loop; a failed pwm_set ends the call.
PlayStep ==
    /\ play_pc = "loop"
    /\ IF play_kind = "mono"
       THEN MonoLoopContinues(play_i, Len(play_buf))
       ELSE StereoLoopContinues(play_i, Len(play_buf))
    /\ \E errL, errR \in DriverResults :
          LET left == play_buf[play_i + 1]
              right == IF play_kind = "mono" THEN left
                       ELSE play_buf[play_i + 2]
              st == EmitPair(audio_sample_to_pwm(left, current_volume),
                             audio_sample_to_pwm(right, current_volume),
                             errL, errR, Machine)
          IN  \* the right write is not made after a failed left write
              /\ errL # 0 => errR = 0
              /\ Commit(st)
              /\ play_pc' = IF st.ret # 0 THEN "idle" ELSE "loop"
              /\ play_emitted' =
                    play_emitted + Len(st.log) - FailedWrites(st.log)
    /\ play_i' = play_i + (IF play_kind = "mono" THEN 1 ELSE 2)
    /\ ev' = "play_step"
    /\ PlayFrame
    /\ UNCHANGED <<play_kind, play_buf>>

\* The loop is over: the call returns 0.
PlayEnd ==
    /\ play_pc = "loop"
    /\ ~(IF play_kind = "mono"
         THEN MonoLoopContinues(play_i, Len(play_buf))
         ELSE StereoLoopContinues(play_i, Len(play_buf)))
    /\ play_pc' = "idle"
    /\ ret' = 0
    /\ hw_log' = <<>>
    /\ ev' = "play_end"
    /\ PlayFrame
    /\ UNCHANGED <<is_muted, is_initialized, pwm_l, pwm_r, shutdown_pin,
                   fault_budget, play_kind, play_buf, play_i, play_emitted>>

(***************************************************************************)
(* Gain requests: pam8403_set_gain and the volume write handler            *)
(***************************************************************************)
\* Levels a caller passes to pam8403_set_gain(uint8_t).
GainArgs ==
    {PAM8403_GAIN_6DB, PAM8403_GAIN_15DB, PAM8403_GAIN_20DB,
     PAM8403_GAIN_24DB, 4, 7, 255}

\* The results of the two gpio_pin_set_dt calls of one pam8403_set_gain.
GainOutcomes ==
    {o \in InitOutcomes :
        \A f \in DOMAIN o : f \notin {"set_g0", "set_g1"} => o[f] = 0}

\* What is left alone by a gain request.
GainFrame ==
    /\ req' = "none"
    /\ quiet_ticks' = 0
    /\ UNCHANGED <<ramp_step, target_volume, ramping_to_mute, timer_running,
                   dev_ready, audio_slab_used, pc, original_volume>>
    /\ UNCHANGED <<codec_vars, play_vars, stream_vars, store_vars>>

\* One call of pam8403_set_gain(gain_level); the function returns nothing.
SetGain_call ==
    /\ pc = "idle"
    /\ \E gain_level \in GainArgs, o \in GainOutcomes :
          /\ Commit(pam8403_set_gain(gain_level, o, Machine))
          /\ arg' = gain_level
    /\ ev' = "set_gain"
    /\ UNCHANGED current_volume
    /\ GainFrame

\* Mutant of GainForVolume: the low tier takes the volume 64 as well.
GainForVolumeLowInclusive(volume) ==
    IF volume <= 64 THEN PAM8403_GAIN_6DB
    ELSE IF volume > 192 THEN PAM8403_GAIN_20DB
    ELSE PAM8403_GAIN_15DB

\* The level volume_write_handler and handle_omi_volume_change pass on.
GainForVolume(volume) ==
    IF volume < 64 THEN PAM8403_GAIN_6DB
    ELSE IF volume > 192 THEN PAM8403_GAIN_20DB
    ELSE PAM8403_GAIN_15DB

\* Volume bytes the transport writes: the ends of the three tiers and one
\* value inside each.
VolumeBytes == {0, 32, 63, 64, 128, 192, 193, 224, 255}

\* volume_write_handler with a buffer of one byte: sets the volume, then the
\* gain of its tier, and returns len.
VolumeWrite_call ==
    /\ pc = "idle"
    /\ \E volume \in VolumeBytes, o \in GainOutcomes :
          /\ current_volume' = ClampVolume(volume)
          /\ Commit(pam8403_set_gain(GainForVolume(volume), o,
                                     [Machine EXCEPT !.ret = 1]))
          /\ arg' = volume
    /\ ev' = "volume_write"
    /\ GainFrame

(***************************************************************************)
(* audio_sample_to_pwm on its own                                          *)
(***************************************************************************)
\* Samples the conversion is applied to: both ends of int16_t, every sample
\* within NearZeroSamples of 0 (with the volumes 0..180 these give every
\* value of the scaled sample from below the clip at -128 to above the clip
\* at 127) and the multiples of SampleStride.
CodecSamples ==
    {-32768, 32767}
        \cup (-NearZeroSamples..NearZeroSamples)
        \cup {s \in -32768..32767 : s % SampleStride = 0}

\* One call of audio_sample_to_pwm(sample) with the volume of the state.
Convert_call ==
    /\ pulse_width = UNSET
    /\ pulse_width' = audio_sample_to_pwm(sample, current_volume)
    /\ ev' = "convert"
    /\ arg' = sample
    /\ UNCHANGED <<current_volume, is_muted, is_initialized, ramp_step,
                   target_volume, ramping_to_mute, timer_running, pwm_l,
                   pwm_r, shutdown_pin, dev_ready, audio_slab_used,
                   fault_budget, pc, original_volume, ret, hw_log, req,
                   quiet_ticks, sample, play_vars, stream_vars,
                   store_vars>>

(***************************************************************************)
(* speaker_pwm.c: speaker_init and the stream reassembler speak            *)
(***************************************************************************)
\* int16_t slots of the working buffer: pwm_audio_play_mono is handed
\* MAX_BLOCK_SIZE / sizeof(int16_t) samples.
BufferSlots == MAX_BLOCK_SIZE \div 2

\* current_length is a uint16_t.
U16(x) == x % 65536

Max(a, b) == IF a >= b THEN a ELSE b

Min(a, b) == IF a <= b THEN a ELSE b

\* Slots one copy loop of speak stores: each of the len/2 samples twice.
CopiedSlots(len) == 2 * (len \div 2)

\* The copy loop stores through a null ptr2 or past the end of the block.
CopyIsWild(len) ==
    /\ CopiedSlots(len) > 0
    /\ \/ ptr2.base = "null"
       \/ ptr2.off + CopiedSlots(len) > BufferSlots

\* Extent of the chunk data in the working buffer after the copy loop.
DirtyAfterCopy(len) ==
    IF ptr2.base = "null" THEN rx_dirty
    ELSE Max(rx_dirty, Min(ptr2.off + CopiedSlots(len), BufferSlots))

\* The working buffer as the loop of pwm_audio_play_mono reads it, one slot
\* for each run of equal slots (the loop treats every slot alike): the chunk
\* data, here the sample d, followed by the zeros above it.
PlayedRuns(dirty, d) ==
    IF dirty = 0 THEN <<0>>
    ELSE IF dirty < BufferSlots THEN <<d, 0>>
    ELSE <<d>>

\* Total lengths a control chunk declares (a uint32_t) and lengths of the
\* data chunks handed to speak.
DeclaredLengths ==
    {PACKET_SIZE \div 2, 2 * PACKET_SIZE} \cup
    {MaxDeclaredPackets * PACKET_SIZE + 1} \cup
    {65536 + PACKET_SIZE \div 2}

\* The four bytes of a control chunk that carries total_length, as the
\* sender lays them out (least significant byte first).
ControlChunk(total_length) ==
    <<total_length % 256, (total_length \div 256) % 256,
      (total_length \div 65536) % 256, (total_length \div 16777216) % 256>>

\* ((uint32_t *)buf)[0] on the little-endian target.
LoadU32(buf) == buf[1] + 256 * buf[2] + 65536 * buf[3] + 16777216 * buf[4]

ChunkLengths == {PACKET_SIZE, PACKET_SIZE \div 2}

StreamSamples == {16384}

\* speaker_init.
SpeakerInit_call ==
    /\ pc = "idle"
    /\ \E o \in InitOutcomes :
          /\ is_initialized => o = NoFailure
          /\ LET st == pwm_audio_init(o, Machine)
                 got_rx == st.ret = 0 /\ mem_slab_used < BLOCK_COUNT
                 got_buzz == got_rx /\ mem_slab_used + 1 < BLOCK_COUNT
                 unmute == got_buzz /\ st.initialized /\ st.muted
             IN  /\ Commit([st EXCEPT
                        !.ret = IF st.ret # 0 THEN st.ret
                                ELSE IF got_buzz THEN 0 ELSE -1,
                        !.muted = IF unmute THEN FALSE ELSE @])
                 /\ rx_buffer' = IF got_rx THEN "slab" ELSE rx_buffer
                 /\ mem_slab_used' = mem_slab_used
                                        + (IF got_rx THEN 1 ELSE 0)
                                        + (IF got_buzz THEN 1 ELSE 0)
                 /\ rx_dirty' = IF got_buzz THEN 0 ELSE rx_dirty
                 /\ timer_running' = IF unmute THEN TRUE ELSE timer_running
                 /\ req' = IF unmute THEN "unmute" ELSE "none"
    /\ quiet_ticks' = 0
    /\ ev' = "speaker_init"
    /\ arg' = 0
    /\ UNCHANGED <<current_volume, ramp_step, target_volume, ramping_to_mute,
                   dev_ready, audio_slab_used, pc, original_volume, ptr2,
                   clear_ptr, current_length, wild_access, declared,
                   delivered, only_packets, play_count, play_samples,
                   codec_vars, play_vars, store_vars>>

\* speak(4, buf): the control chunk, buf holding the total length.
SpeakControl_call ==
    /\ pc = "idle"
    /\ ~wild_access
    /\ \E total_length \in DeclaredLengths :
          /\ current_length' = U16(LoadU32(ControlChunk(total_length)))
          /\ declared' = total_length
          /\ arg' = total_length
    /\ ptr2' = [base |-> IF rx_buffer = "slab" THEN "rx_buffer" ELSE "null",
                off |-> 0]
    /\ clear_ptr' = IF rx_buffer = "slab" THEN "rx_buffer" ELSE "null"
    /\ delivered' = 0
    /\ only_packets' = TRUE
    /\ play_count' = 0
    /\ play_samples' = 0
    /\ ev' = "speak_control"
    /\ ret' = 4
    /\ hw_log' = <<>>
    /\ req' = "none"
    /\ quiet_ticks' = 0
    /\ UNCHANGED <<current_volume, is_muted, is_initialized, ramp_step,
                   target_volume, ramping_to_mute, timer_running, pwm_l,
                   pwm_r, shutdown_pin, dev_ready, audio_slab_used,
                   fault_budget, pc, original_volume, mem_slab_used,
                   rx_buffer, rx_dirty, wild_access, codec_vars, play_vars,
                   store_vars>>

\* speak(len, buf) with len other than 4: a data chunk.  What the program
\* does after a wild store or load is undefined and is not followed further.
SpeakData_call ==
    /\ pc = "idle"
    /\ ~wild_access
    /\ \E len \in ChunkLengths :
          /\ arg' = len
          /\ delivered' = Min(delivered + len, declared + 1)
          /\ only_packets' = (only_packets /\ len = PACKET_SIZE)
          /\ IF current_length > PACKET_SIZE
             THEN /\ current_length' = current_length - PACKET_SIZE
                  /\ ptr2' = [ptr2 EXCEPT !.off = @ + CopiedSlots(len)]
                  /\ rx_dirty' = DirtyAfterCopy(len)
                  /\ wild_access' = CopyIsWild(len)
                  /\ ret' = len
                  /\ hw_log' = <<>>
                  /\ UNCHANGED <<is_muted, is_initialized, pwm_l, pwm_r,
                                 shutdown_pin, fault_budget, play_count,
                                 play_samples>>
             ELSE IF current_length < PACKET_SIZE
             THEN /\ current_length' = U16(current_length - len)
                  /\ ptr2' = [ptr2 EXCEPT !.off = @ + CopiedSlots(len)]
                  /\ \E d \in StreamSamples :
                        LET buffer == PlayedRuns(DirtyAfterCopy(len), d)
                        IN  \E fail \in 0..(2 * Len(buffer)) :
                               Commit([pwm_audio_play_mono(buffer,
                                           current_volume, fail, Machine)
                                          EXCEPT !.ret = len])
                  /\ play_count' = play_count + 1
                  /\ play_samples' = BufferSlots
                  /\ rx_dirty' = IF clear_ptr = "null"
                                 THEN DirtyAfterCopy(len) ELSE 0
                  /\ wild_access' =
                        \/ CopyIsWild(len)
                        \/ clear_ptr = "null"
                        \/ rx_buffer = "null" /\ is_initialized /\ ~is_muted
             ELSE /\ ret' = len
                  /\ hw_log' = <<>>
                  /\ UNCHANGED <<current_length, ptr2, rx_dirty, wild_access,
                                 is_muted, is_initialized, pwm_l, pwm_r,
                                 shutdown_pin, fault_budget, play_count,
                                 play_samples>>
    /\ ev' = "speak_data"
    /\ req' = "none"
    /\ quiet_ticks' = 0
    /\ UNCHANGED <<current_volume, ramp_step, target_volume, ramping_to_mute,
                   timer_running, dev_ready, audio_slab_used, pc,
                   original_volume, mem_slab_used, rx_buffer, clear_ptr,
                   declared, codec_vars, play_vars, store_vars>>

(***************************************************************************)
(* SD card audio file store (the driver code of pwm_audio.h)               *)
(***************************************************************************)
\* The null char pointer, and what the "%s" of snprintf prints for it.
NULL == "NULL"

Str(s) == IF s = NULL THEN "(null)" ELSE s

DigitChars == <<"0", "1", "2", "3", "4", "5", "6", "7", "8", "9">>

\* The character 48 + d.
Digit(d) == DigitChars[d + 1]

generate_new_audio_header(num) ==
    IF num > 99 THEN NULL
    ELSE "audio/a" \o Digit(num \div 10) \o Digit(num % 10) \o ".txt"

\* snprintf(..., "%s%s", SD_MOUNT_PT, file_path)
FullPath(file_path) == SD_MOUNT_PT \o Str(file_path)

\* The paths that name a file of the audio directory.
AudioPaths == {FullPath(generate_new_audio_header(n)) : n \in 0..99}

\* The driver's statics and the card, as the value a call works on.
Store ==
    [state |-> sd_card_state, dir |-> audio_dir, files |-> fs_files,
     count |-> file_count, rd |-> current_read_file,
     wr |-> current_write_file, rbuf |-> read_buffer, wbuf |-> write_buffer,
     hdr |-> last_header, idx |-> file_num_writes, heap |-> <<>>,
     ret |-> 0]

\* The file system serves a path only while the card is mounted.
Mounted(st) == st.state = "MOUNTED"

\* fs_stat and fs_unlink of a file succeed when the file exists.
FileExists(full_path, st) == Mounted(st) /\ full_path \in st.files

create_file(file_path, st) ==
    LET full_path == FullPath(file_path)
    IN  IF Mounted(st) /\ (full_path \in AudioPaths => st.dir)
        THEN [st EXCEPT !.files = @ \cup {full_path}, !.ret = 0]
        ELSE [st EXCEPT !.ret = -2]

\* What an operation does with the buffer generate_new_audio_header gave it
\* (none when it gave NULL: k_free(NULL) does nothing): the name is read,
\* then the buffer is freed.
UsedThenFreed(ptr) ==
    IF ptr = NULL THEN <<>> ELSE <<"alloc", "use", "free">>

\* initialize_audio_file: k_free(header), then create_file(header).
FreedThenUsed(ptr) ==
    IF ptr = NULL THEN <<>> ELSE <<"alloc", "free", "use">>

\* What create_file reads through the header that initialize_audio_file has
\* just freed: the name still intact, or bytes that name no file that can be
\* opened.
FreedReads == {"intact", "clobbered"}

initialize_audio_file(num, freed, st) ==
    LET header == generate_new_audio_header(num)
        s1 == [st EXCEPT !.hdr = header, !.heap = @ \o FreedThenUsed(header)]
    IN  IF header = NULL THEN [s1 EXCEPT !.ret = -1]
        ELSE IF freed = "intact"
        THEN [create_file(header, s1) EXCEPT !.ret = 0]
        ELSE [s1 EXCEPT !.ret = 0]

\* Mutant of move_read_pointer: the cursor moves before fs_stat is asked.
MoveReadPointerUnchecked(num, st) ==
    LET read_ptr == generate_new_audio_header(num)
        s1 == [st EXCEPT !.hdr = read_ptr, !.rbuf = FullPath(read_ptr),
                         !.rd = num]
    IN  IF ~FileExists(s1.rbuf, s1) THEN [s1 EXCEPT !.ret = -1]
        ELSE [s1 EXCEPT !.ret = 0]

move_read_pointer(num, st) ==
    LET read_ptr == generate_new_audio_header(num)
        s1 == [st EXCEPT !.hdr = read_ptr, !.rbuf = FullPath(read_ptr),
                         !.heap = @ \o UsedThenFreed(read_ptr)]
    IN  IF ~FileExists(s1.rbuf, s1) THEN [s1 EXCEPT !.ret = -1]
        ELSE [s1 EXCEPT !.rd = num, !.ret = 0]

move_write_pointer(num, st) ==
    LET write_ptr == generate_new_audio_header(num)
        s1 == [st EXCEPT !.hdr = write_ptr, !.wbuf = FullPath(write_ptr),
                         !.heap = @ \o UsedThenFreed(write_ptr)]
    IN  IF ~FileExists(s1.wbuf, s1) THEN [s1 EXCEPT !.ret = -1]
        ELSE [s1 EXCEPT !.wr = num, !.ret = 0]

delete_audio_file(num, st) ==
    LET ptr == generate_new_audio_header(num)
        s1 == [st EXCEPT !.hdr = ptr, !.heap = @ \o UsedThenFreed(ptr)]
    IN  IF ~FileExists(FullPath(ptr), s1) THEN [s1 EXCEPT !.ret = -1]
        ELSE [s1 EXCEPT !.files = @ \ {FullPath(ptr)}, !.ret = 0]

\* get_file_size: the audio files of the model are empty, so the size it
\* returns is 0 as is the 0 it returns for a file that is not there.
get_file_size(num, st) ==
    LET ptr == generate_new_audio_header(num)
    IN  [st EXCEPT !.hdr = ptr, !.heap = @ \o UsedThenFreed(ptr), !.ret = 0]

clear_audio_file(num, st) ==
    LET clear_header == generate_new_audio_header(num)
        s1 == [st EXCEPT !.hdr = clear_header,
                         !.heap = @ \o UsedThenFreed(clear_header)]
        create_file_header == generate_new_audio_header(num)
        s2 == create_file(create_file_header,
                  [s1 EXCEPT !.files = @ \ {FullPath(clear_header)},
                             !.hdr = create_file_header,
                             !.heap = @ \o UsedThenFreed(create_file_header)])
    IN  IF ~FileExists(FullPath(clear_header), s1) THEN [s1 EXCEPT !.ret = -1]
        ELSE IF s2.ret # 0 THEN [s2 EXCEPT !.ret = -1]
        ELSE [s2 EXCEPT !.ret = 0]

\* The loop of clear_audio_directory from file i down to file 1.
RECURSIVE DeleteLoop(_, _)
DeleteLoop(i, st) ==
    IF i = 0 THEN [st EXCEPT !.ret = 0]
    ELSE LET s1 == delete_audio_file(i, st)
         IN  IF s1.ret # 0 THEN [s1 EXCEPT !.ret = -1]
             ELSE DeleteLoop(i - 1, s1)

\* fs_unlink("/SD:/audio") removes the directory when it exists and is empty.
DirRemovable(st) ==
    Mounted(st) /\ st.dir /\ st.files \cap AudioPaths = {}

clear_audio_directory(st) ==
    IF st.count = 1 THEN [st EXCEPT !.ret = 0]
    ELSE LET s1 == DeleteLoop(st.count, st)
             \* fs_unlink and fs_mkdir of the directory
             s2 == create_file("audio/a01.txt", s1)
             s3 == move_write_pointer(1, [s2 EXCEPT !.count = 1])
         IN  IF s1.ret # 0 THEN s1
             ELSE IF ~DirRemovable(s1) THEN [s1 EXCEPT !.ret = -1]
             ELSE IF s2.ret # 0 THEN [s2 EXCEPT !.ret = -1]
             ELSE [s3 EXCEPT !.ret = 0]

\* The loop of get_file_contents with `entries` directory entries still to
\* read: each one is stored at file_num_array[count].
RECURSIVE ReadDirLoop(_, _, _)
ReadDirLoop(entries, count, stored) ==
    IF entries = 0 THEN [count |-> count, stored |-> stored]
    ELSE ReadDirLoop(entries - 1, count + 1, stored \cup {count})

\* get_file_contents on a directory of `entries` entries: the number it
\* returns and the indexes of file_num_array it has stored at.
get_file_contents(entries) == ReadDirLoop(entries, 0, {})

\* The entries fs_readdir gives for the audio directory.
DirEntries(st) == st.files \cap AudioPaths

\* sd_card_mount on a card whose file system mounts.
sd_card_mount(freed, st) ==
    IF st.state # "INITIALIZED" THEN [st EXCEPT !.ret = -ENODEV]
    ELSE LET s0 == [st EXCEPT !.state = "MOUNTED"]
             \* fs_mkdir(AUDIO_DIR) returns 0 or -EEXIST
             s1 == IF s0.dir THEN s0
                   ELSE initialize_audio_file(1, freed,
                                              [s0 EXCEPT !.dir = TRUE])
             counted == get_file_contents(Cardinality(DirEntries(s1)))
             \* file_count = get_file_contents(...); file_count = 1;
             s2 == move_write_pointer(1, [s1 EXCEPT !.idx = counted.stored,
                                                    !.count = 1])
         IN  IF s2.ret # 0 THEN s2
             ELSE [move_read_pointer(1, s2) EXCEPT !.ret = 0]

\* sd_card_start: sd_card_init, whose disk_access_init fails twice when no
\* card answers, then sd_card_mount.
sd_card_start(freed, st) ==
    IF ~card_present THEN [st EXCEPT !.state = "ERROR", !.ret = -EIO]
    ELSE sd_card_mount(freed, [st EXCEPT !.state = "INITIALIZED"])

\* File numbers (uint8_t) the file operations are called with.
FileNums == (0..MaxFileNum) \cup {100}

PointerNums == {0, 1, 42, 100}

StoreCommit(st) ==
    /\ sd_card_state' = st.state
    /\ audio_dir' = st.dir
    /\ fs_files' = st.files
    /\ file_count' = st.count
    /\ current_read_file' = st.rd
    /\ current_write_file' = st.wr
    /\ read_buffer' = st.rbuf
    /\ write_buffer' = st.wbuf
    /\ last_header' = st.hdr
    /\ file_num_writes' = st.idx
    /\ heap_log' = st.heap
    /\ ret' = st.ret

\* Every store action leaves the audio side alone.
StoreFrame ==
    /\ hw_log' = <<>>
    /\ req' = "none"
    /\ quiet_ticks' = 0
    /\ UNCHANGED <<current_volume, is_muted, is_initialized, ramp_step,
                   target_volume, ramping_to_mute, timer_running, pwm_l,
                   pwm_r, shutdown_pin, dev_ready, audio_slab_used,
                   fault_budget, pc, original_volume, card_present,
                   codec_vars, play_vars, stream_vars, record_vars>>

\* sd_card_start, called once at boot.
SdCardStart_call ==
    /\ sd_card_state = "UNINITIALIZED"
    /\ \E freed \in FreedReads : StoreCommit(sd_card_start(freed, Store))
    /\ ev' = "sd_card_start"
    /\ arg' = 0
    /\ StoreFrame

InitializeAudioFile_call ==
    /\ \E num \in FileNums, freed \in FreedReads :
          /\ StoreCommit(initialize_audio_file(num, freed, Store))
          /\ arg' = num
    /\ ev' = "initialize_audio_file"
    /\ StoreFrame

MoveReadPointer_call ==
    /\ \E num \in PointerNums :
          /\ StoreCommit(move_read_pointer(num, Store))
          /\ arg' = num
    /\ ev' = "move_read_pointer"
    /\ StoreFrame

MoveWritePointer_call ==
    /\ \E num \in PointerNums :
          /\ StoreCommit(move_write_pointer(num, Store))
          /\ arg' = num
    /\ ev' = "move_write_pointer"
    /\ StoreFrame

GetFileSize_call ==
    /\ \E num \in PointerNums :
          /\ StoreCommit(get_file_size(num, Store))
          /\ arg' = num
    /\ ev' = "get_file_size"
    /\ StoreFrame

ClearAudioFile_call ==
    /\ \E num \in PointerNums :
          /\ StoreCommit(clear_audio_file(num, Store))
          /\ arg' = num
    /\ ev' = "clear_audio_file"
    /\ StoreFrame

DeleteAudioFile_call ==
    /\ \E num \in PointerNums :
          /\ StoreCommit(delete_audio_file(num, Store))
          /\ arg' = num
    /\ ev' = "delete_audio_file"
    /\ StoreFrame

ClearAudioDirectory_call ==
    /\ StoreCommit(clear_audio_directory(Store))
    /\ ev' = "clear_audio_directory"
    /\ arg' = 0
    /\ StoreFrame

(***************************************************************************)
(* Files of the root directory: the offset record and named files          *)
(***************************************************************************)
\* No file with content on the card.
NoData == [path \in {} |-> <<>>]

\* The record file of save_offset and get_offset.
InfoPath == "/SD:/info.txt"

\* snprintf(filepath, ..., "%s/%s", SD_MOUNT_PT, filename)
FilePath(filename) == SD_MOUNT_PT \o "/" \o filename

\* What fs_open and fs_write return when they fail.
FsResults == {0, -EIO}

\* The card as a file operation sees it, and what the operation returns.
Disk ==
    [state |-> sd_card_state, data |-> fs_data, buf |-> read_back, ret |-> 0]

\* fs_open(..., FS_O_CREATE | FS_O_WRITE) followed by fs_write of bytes: the
\* file is created when it is missing and is not truncated when it exists;
\* the bytes replace its content from position 0.
BytesAtStart(old, bytes) ==
    bytes \o SubSeq(old, Len(bytes) + 1, Len(old))

Content(path, d) == IF path \in DOMAIN d.data THEN d.data[path] ELSE <<>>

WithFile(path, bytes, d) ==
    [d EXCEPT !.data = [q \in DOMAIN d.data \cup {path} |->
                           IF q = path THEN bytes ELSE d.data[q]]]

\* A uint32_t, held as its two 16-bit halves: the value is
\* hi * 65536 + lo.
U32(hi, lo) == [hi |-> hi, lo |-> lo]

\* The buffer of save_offset: offset & 0xFF, (offset >> 8) & 0xFF,
\* (offset >> 16) & 0xFF, (offset >> 24) & 0xFF.
OffsetBytes(offset) ==
    <<offset.lo % 256, (offset.lo \div 256) % 256,
      offset.hi % 256, (offset.hi \div 256) % 256>>

\* ((uint32_t *)buf)[0] of get_offset on the little-endian target.
OffsetWord(buf) == U32(buf[3] + 256 * buf[4], buf[1] + 256 * buf[2])

\* Conversion of a uint32_t to the int a function returns (32 bits, two's
\* complement).
AsInt(x) ==
    IF x.hi >= 32768 THEN (x.hi - 65536) * 65536 + x.lo
    ELSE x.hi * 65536 + x.lo

\* io is what fs_write returns when the file has been opened.
save_offset(offset, io, d) ==
    IF d.state # "MOUNTED" THEN [d EXCEPT !.ret = -EIO]
    ELSE IF io < 0
         THEN [WithFile(InfoPath, Content(InfoPath, d), d) EXCEPT !.ret = io]
         ELSE [WithFile(InfoPath,
                        BytesAtStart(Content(InfoPath, d), OffsetBytes(offset)),
                        d) EXCEPT !.ret = 0]

\* stale holds the four bytes of the local buf before fs_read fills it: the
\* bytes the file does not provide keep their indeterminate value.
get_offset(stale, d) ==
    IF d.state # "MOUNTED" \/ InfoPath \notin DOMAIN d.data
    THEN [d EXCEPT !.ret = -EIO]
    ELSE LET bytes == Content(InfoPath, d)
             buf == [i \in 1..4 |->
                        IF i <= Len(bytes) THEN bytes[i] ELSE stale[i]]
         IN  [d EXCEPT !.ret = AsInt(OffsetWord(buf))]

\* content is never NULL here; io is what fs_write returns.
sd_card_create_file(filename, content, io, d) ==
    IF d.state # "MOUNTED" THEN [d EXCEPT !.ret = -ENODEV]
    ELSE LET path == FilePath(filename)
         IN  IF io < 0
             THEN [WithFile(path, Content(path, d), d) EXCEPT !.ret = io]
             ELSE [WithFile(path, BytesAtStart(Content(path, d), content), d)
                      EXCEPT !.ret = 0]

sd_card_read_file(filename, buffer_size, d) ==
    LET path == FilePath(filename)
    IN  IF d.state # "MOUNTED" THEN [d EXCEPT !.ret = -ENODEV]
        ELSE IF path \notin DOMAIN d.data THEN [d EXCEPT !.ret = -EIO]
        ELSE LET got == Min(Len(d.data[path]), buffer_size - 1)
             IN  [d EXCEPT !.buf = SubSeq(d.data[path], 1, got),
                           !.ret = got]

sd_card_delete_file(filename, d) ==
    LET path == FilePath(filename)
    IN  IF d.state # "MOUNTED" THEN [d EXCEPT !.ret = -ENODEV]
        ELSE IF path \notin DOMAIN d.data THEN [d EXCEPT !.ret = -EIO]
        ELSE [d EXCEPT !.data = [q \in DOMAIN d.data \ {path} |-> d.data[q]],
                       !.ret = 0]

\* Offsets (uint32_t) save_offset is called with: small ones, the two around
\* the largest int, one whose int value is -EIO, and the largest.
Offsets ==
    {U32(0, 0), U32(0, 1), U32(0, PACKET_SIZE), U32(32767, 65535),
     U32(32768, 0), U32(65535, 65536 - EIO), U32(65535, 65535)}

StaleBytes == {[i \in 1..4 |-> b] : b \in {0, 255}}

\* The file name of sd_card_test_read_write.
FileNames == {"test.txt"}

\* Contents (strings without their terminator): "", "a", "b", "ab", "ba",
\* "aba", "bab", ... up to MaxContentLen characters.
Contents ==
    {[i \in 1..n |-> IF (i + k) % 2 = 0 THEN 97 ELSE 98] :
        n \in 0..MaxContentLen, k \in 0..1}

\* Sizes of the buffer handed to sd_card_read_file: one that holds every
\* content with its terminator and one that does not.
BufferSizes == {MaxContentLen, MaxContentLen + 1}

DiskCommit(d) ==
    /\ fs_data' = d.data
    /\ read_back' = d.buf
    /\ ret' = d.ret

\* What an operation on the root directory's files leaves alone.
RecordFrame ==
    /\ hw_log' = <<>>
    /\ req' = "none"
    /\ quiet_ticks' = 0
    /\ UNCHANGED <<current_volume, is_muted, is_initialized, ramp_step,
                   target_volume, ramping_to_mute, timer_running, pwm_l,
                   pwm_r, shutdown_pin, dev_ready, audio_slab_used,
                   fault_budget, pc, original_volume>>
    /\ UNCHANGED <<sd_card_state, file_count, current_read_file,
                   current_write_file, read_buffer, write_buffer,
                   card_present, audio_dir, fs_files, last_header,
                   file_num_writes, heap_log>>
    /\ UNCHANGED <<codec_vars, play_vars, stream_vars>>

SaveOffset_call ==
    /\ \E offset \in Offsets, io \in FsResults :
          /\ DiskCommit(save_offset(offset, io, Disk))
          /\ saved' = offset
    /\ ev' = "save_offset"
    /\ arg' = 0
    /\ UNCHANGED written
    /\ RecordFrame

GetOffset_call ==
    /\ \E stale \in StaleBytes : DiskCommit(get_offset(stale, Disk))
    /\ ev' = "get_offset"
    /\ arg' = 0
    /\ UNCHANGED <<written, saved>>
    /\ RecordFrame

CreateFile_call ==
    /\ \E filename \in FileNames, content \in Contents, io \in FsResults :
          /\ DiskCommit(sd_card_create_file(filename, content, io, Disk))
          /\ written' = content
    /\ ev' = "create_file"
    /\ arg' = 0
    /\ UNCHANGED saved
    /\ RecordFrame

ReadFile_call ==
    /\ \E filename \in FileNames, buffer_size \in BufferSizes :
          /\ DiskCommit(sd_card_read_file(filename, buffer_size, Disk))
          /\ arg' = buffer_size
    /\ ev' = "read_file"
    /\ UNCHANGED <<written, saved>>
    /\ RecordFrame

DeleteFile_call ==
    /\ \E filename \in FileNames :
          DiskCommit(sd_card_delete_file(filename, Disk))
    /\ ev' = "delete_file"
    /\ arg' = 0
    /\ UNCHANGED <<written, saved>>
    /\ RecordFrame

(***************************************************************************)
(* Initial states                                                          *)
(***************************************************************************)
\* Hardware that is present and does not fail.
SoundHardware ==
    /\ dev_ready = [d \in Devices |-> TRUE]
    /\ fault_budget = 0

EngineBoot ==
    /\ current_volume = PWM_AUDIO_MAX_VOLUME
    /\ is_muted = FALSE
    /\ is_initialized = FALSE
    /\ ramp_step = 0
    /\ target_volume = 0
    /\ ramping_to_mute = FALSE
    /\ timer_running = FALSE
    /\ pwm_l = UNSET
    /\ pwm_r = UNSET
    /\ shutdown_pin = UNSET
    /\ audio_slab_used = 0
    /\ pc = "idle"
    /\ original_volume = 0
    /\ ev = "boot"
    /\ arg = 0
    /\ ret = 0
    /\ hw_log = <<>>
    /\ req = "none"
    /\ quiet_ticks = 0

EngineInit ==
    /\ EngineBoot
    /\ dev_ready \in [Devices -> BOOLEAN]
    /\ Cardinality({d \in Devices : ~dev_ready[d]}) <= MaxMissingDevices
    /\ fault_budget \in {0, MaxDriverFaults}

CodecBoot ==
    /\ sample = 0
    /\ pulse_width = UNSET

\* No call of pwm_audio_play or pwm_audio_play_mono is running.
PlayBoot ==
    /\ tests = [t \in TestThreads |-> NoTest]
    /\ play_pc = "idle"
    /\ play_kind = "mono"
    /\ play_buf = <<>>
    /\ play_i = 0
    /\ play_emitted = 0

StreamBoot ==
    /\ mem_slab_used = 0
    /\ rx_buffer = "null"
    /\ ptr2 = [base |-> "null", off |-> 0]
    /\ clear_ptr = "null"
    /\ current_length = 0
    /\ rx_dirty = 0
    /\ wild_access = FALSE
    /\ declared = 0
    /\ delivered = 0
    /\ only_packets = TRUE
    /\ play_count = 0
    /\ play_samples = 0

StoreBoot ==
    /\ sd_card_state = "UNINITIALIZED"
    /\ file_count = 0
    /\ current_read_file = 1
    /\ current_write_file = 1
    /\ read_buffer = ""
    /\ write_buffer = ""
    /\ last_header = NULL
    /\ file_num_writes = {}
    /\ heap_log = <<>>
    /\ fs_data = NoData
    /\ read_back = <<>>
    /\ written = <<>>
    /\ saved = U32(0, 0)

\* A card that has never been in the device.
BlankCard ==
    /\ card_present = TRUE
    /\ audio_dir = FALSE
    /\ fs_files = {}

\* No card, a blank card, or a card an earlier boot left its audio directory
\* on, with or without the file a01.txt.
AnyCard ==
    /\ card_present \in BOOLEAN
    /\ audio_dir \in BOOLEAN
    /\ fs_files \in SUBSET {FullPath(generate_new_audio_header(1))}
    /\ fs_files # {} => audio_dir
    /\ audio_dir => card_present

(***************************************************************************)
(* Specification of the engine                                             *)
(***************************************************************************)
Init ==
    /\ EngineInit
    /\ CodecBoot
    /\ PlayBoot
    /\ StreamBoot
    /\ StoreBoot
    /\ BlankCard

\* The engine's entry points other than the self-tests, and the ramp timer.
Next ==
    \/ Init_call
    \/ Mute_call
    \/ Unmute_call
    \/ SetVolume_call
    \/ Tick

vars == <<engine_vars, codec_vars, play_vars, stream_vars, store_vars>>

Spec == Init /\ [][Next]_vars

\* The engine with its self-tests, on hardware that is present and does not
\* fail.
SelfTestInit ==
    /\ Init
    /\ SoundHardware

SelfTestNext ==
    \/ Next
    \/ SineBegin_call
    \/ SineEnd_call

SpecSelfTest == SelfTestInit /\ [][SelfTestNext]_vars

(***************************************************************************)
(* Specification of the gain requests                                      *)
(***************************************************************************)
\* The amplifier's gain is set directly and through the volume handler, on
\* hardware whose pins may be missing and whose writes may fail.
GainInit == Init

GainNext ==
    \/ Init_call
    \/ SetGain_call
    \/ VolumeWrite_call

SpecGain == GainInit /\ [][GainNext]_vars

(***************************************************************************)
(* Specification of playback next to the engine's other entry points       *)
(***************************************************************************)
\* One thread plays while another one initialises, mutes and unmutes, on
\* hardware that is present and does not fail.
PlayInit ==
    /\ Init
    /\ SoundHardware

PlayNext ==
    \/ Init_call
    \/ Mute_call
    \/ Unmute_call
    \/ Tick
    \/ PlayBegin_call
    \/ PlayStep
    \/ PlayEnd

SpecPlay == PlayInit /\ [][PlayNext]_vars

(***************************************************************************)
(* Specification of the sample conversion                                  *)
(***************************************************************************)
\* Any volume pwm_audio_set_volume stores and any sample of CodecSamples.
CodecInit ==
    /\ current_volume \in 0..PWM_AUDIO_MAX_VOLUME
    /\ is_muted = FALSE
    /\ is_initialized = FALSE
    /\ ramp_step = 0
    /\ target_volume = 0
    /\ ramping_to_mute = FALSE
    /\ timer_running = FALSE
    /\ pwm_l = UNSET
    /\ pwm_r = UNSET
    /\ shutdown_pin = UNSET
    /\ audio_slab_used = 0
    /\ pc = "idle"
    /\ original_volume = 0
    /\ ev = "boot"
    /\ arg = 0
    /\ ret = 0
    /\ hw_log = <<>>
    /\ req = "none"
    /\ quiet_ticks = 0
    /\ SoundHardware
    /\ PlayBoot
    /\ StreamBoot
    /\ StoreBoot
    /\ BlankCard
    /\ pulse_width = UNSET
    /\ sample \in CodecSamples

CodecNext == Convert_call

SpecCodec == CodecInit /\ [][CodecNext]_vars

(***************************************************************************)
(* Specification of the stream reassembler                                 *)
(***************************************************************************)
StreamInit ==
    /\ EngineBoot
    /\ SoundHardware
    /\ CodecBoot
    /\ PlayBoot
    /\ StreamBoot
    /\ StoreBoot
    /\ BlankCard

StreamNext ==
    \/ SpeakerInit_call
    \/ SpeakControl_call
    \/ SpeakData_call
    \/ Tick

SpecStream == StreamInit /\ [][StreamNext]_vars

(***************************************************************************)
(* Specification of the file store                                         *)
(***************************************************************************)
StoreInit ==
    /\ EngineBoot
    /\ SoundHardware
    /\ CodecBoot
    /\ PlayBoot
    /\ StreamBoot
    /\ StoreBoot
    /\ AnyCard

StoreNext ==
    \/ SdCardStart_call
    \/ InitializeAudioFile_call
    \/ MoveReadPointer_call
    \/ MoveWritePointer_call
    \/ ClearAudioDirectory_call

SpecStore == StoreInit /\ [][StoreNext]_vars

(***************************************************************************)
(* Specification of the operations that take a file number                 *)
(***************************************************************************)
\* The six operations that build a file name from a number, called with the
\* numbers of PointerNums after the boot of a blank card.
NamesInit ==
    /\ EngineBoot
    /\ SoundHardware
    /\ CodecBoot
    /\ PlayBoot
    /\ StreamBoot
    /\ StoreBoot
    /\ BlankCard

InitializeNamedFile_call ==
    /\ InitializeAudioFile_call
    /\ arg' \in PointerNums

NamesNext ==
    \/ SdCardStart_call
    \/ InitializeNamedFile_call
    \/ MoveReadPointer_call
    \/ MoveWritePointer_call
    \/ GetFileSize_call
    \/ ClearAudioFile_call
    \/ DeleteAudioFile_call

SpecNames == NamesInit /\ [][NamesNext]_vars

(***************************************************************************)
(* Specification of the mount of a card that has been used before          *)
(***************************************************************************)
\* A card on which earlier boots have left the audio directory with the
\* files a01.txt, a02.txt, ... in it.
UsedCard ==
    /\ card_present = TRUE
    /\ audio_dir = TRUE
    /\ \E n \in 0..MaxDirEntries :
          fs_files = {FullPath(generate_new_audio_header(k)) : k \in 1..n}

MountInit ==
    /\ EngineBoot
    /\ SoundHardware
    /\ CodecBoot
    /\ PlayBoot
    /\ StreamBoot
    /\ StoreBoot
    /\ UsedCard

MountNext ==
    \/ SdCardStart_call
    \/ MoveReadPointer_call
    \/ MoveWritePointer_call

SpecMount == MountInit /\ [][MountNext]_vars

(***************************************************************************)
(* Specification of the files of the root directory                        *)
(***************************************************************************)
\* A card that has never been in the device: the files an operation meets
\* are those the calls before it have left.
RecordsInit ==
    /\ EngineBoot
    /\ SoundHardware
    /\ CodecBoot
    /\ PlayBoot
    /\ StreamBoot
    /\ StoreBoot
    /\ BlankCard

\* The offset record.
OffsetNext ==
    \/ SdCardStart_call
    \/ SaveOffset_call
    \/ GetOffset_call

SpecOffset == RecordsInit /\ [][OffsetNext]_vars

\* The named files.
FilesNext ==
    \/ SdCardStart_call
    \/ CreateFile_call
    \/ ReadFile_call
    \/ DeleteFile_call

SpecFiles == RecordsInit /\ [][FilesNext]_vars

(***************************************************************************)
(* Specification of the memory pools                                       *)
(***************************************************************************)
\* Several threads run self-tests next to speaker_init, which initialises
\* and unmutes the engine and takes the two buffers of the stream
\* reassembler, on hardware that is present and whose writes may fail.
PoolInit ==
    /\ EngineBoot
    /\ dev_ready = [d \in Devices |-> TRUE]
    /\ fault_budget \in {0, MaxDriverFaults}
    /\ CodecBoot
    /\ PlayBoot
    /\ StreamBoot
    /\ StoreBoot
    /\ BlankCard

PoolNext ==
    \/ SpeakerInit_call
    \/ TestBegin_call
    \/ TestEnd_call

SpecPool == PoolInit /\ [][PoolNext]_vars

(***************************************************************************)
(* Specification of playback on hardware whose writes may fail             *)
(***************************************************************************)
\* The devices are present; up to MaxDriverFaults driver calls fail.
PlayFaultsInit ==
    /\ EngineBoot
    /\ dev_ready = [d \in Devices |-> TRUE]
    /\ fault_budget \in {0, MaxDriverFaults}
    /\ CodecBoot
    /\ PlayBoot
    /\ StreamBoot
    /\ StoreBoot
    /\ BlankCard

PlayFaultsNext ==
    \/ Init_call
    \/ Unmute_call
    \/ PlayBegin_call
    \/ PlayStep
    \/ PlayEnd

SpecPlayFaults == PlayFaultsInit /\ [][PlayFaultsNext]_vars

(***************************************************************************)
(* Claims about the engine                                                 *)
(***************************************************************************)
\* C1: once the ramp timer has ticked PWM_AUDIO_MUTE_RAMP_STEPS times after an
\* accepted pwm_audio_mute(), with no other call in between, the volume is 0
\* and both PWM channels are at exactly 50% duty.
C1_MuteRampEndsSilent ==
    (req = "mute" /\ quiet_ticks = PWM_AUDIO_MUTE_RAMP_STEPS)
        => /\ current_volume = 0
           /\ pwm_l = PWM_SILENCE
           /\ pwm_r = PWM_SILENCE

\* C3: a mute or unmute request accepted while a ramp is in progress puts the
\* step counter back to 0, and the ramp that completes has the direction of
\* the current muted flag.
C3_RequestRestartsRamp ==
    [][/\ (ev' \in {"mute", "unmute"} /\ is_muted' # is_muted /\ ramp_step > 0)
            => ramp_step' = 0
       /\ (ev' = "tick" /\ timer_running /\ ~timer_running')
            => ramping_to_mute' = is_muted']_vars

\* C8: in every reachable state the volume lies in 0..PWM_AUDIO_MAX_VOLUME.
C8_VolumeInRange == current_volume \in 0..PWM_AUDIO_MAX_VOLUME

\* pwm_audio_set_volume(255) was called while a self-test was not running and
\* the ramp was under way, and has stored the maximum.
C8_Witness ==
    /\ ev = "set_volume"
    /\ arg = 255
    /\ ramp_step > 0
    /\ current_volume = PWM_AUDIO_MAX_VOLUME

\* C9: pwm_audio_init drives the shutdown pin active only after it has
\* written 50% duty to the left and then the right channel, both accepted by
\* the driver; after a rejected silence write it does not touch the pin.
IsWake(w) == w.dev = "shutdown" /\ w.val = 1

C9_SilenceBeforeWake ==
    /\ ev = "init" =>
          \A i \in DOMAIN hw_log :
             IsWake(hw_log[i]) =>
                /\ \E j, k \in 1..(i - 1) :
                      /\ j < k
                      /\ hw_log[j] = Wr("pwm_l", PWM_SILENCE, 0)
                      /\ hw_log[k] = Wr("pwm_r", PWM_SILENCE, 0)
                /\ \A j \in DOMAIN hw_log :
                      hw_log[j].dev \in {"pwm_l", "pwm_r"} => hw_log[j].ok
    /\ shutdown_pin = 1 => pwm_l # UNSET /\ pwm_r # UNSET

\* An init that has woken the amplifier.
C9_Witness ==
    /\ ev = "init"
    /\ is_initialized
    /\ shutdown_pin = 1
    /\ \E i \in DOMAIN hw_log : IsWake(hw_log[i])

\* C10: pwm_audio_init on an initialized engine returns 0, issues no driver
\* write and leaves volume, muted, initialized and the hardware as they are.
C10_InitIdempotent ==
    [][(ev' = "init" /\ is_initialized)
          => /\ ret' = 0
             /\ hw_log' = <<>>
             /\ UNCHANGED <<current_volume, is_muted, is_initialized, pwm_l,
                            pwm_r, shutdown_pin, ramp_step, timer_running>>]_vars

\* pwm_audio_init has returned on an engine that is initialized and unmuted:
\* a first init leaves the engine muted.
C10_Witness == ev = "init" /\ is_initialized /\ ~is_muted /\ ret = 0

(***************************************************************************)
(* Claims about the sample conversion                                      *)
(***************************************************************************)
\* C4: for every sample and every volume 0..180 the pulse width that
\* audio_sample_to_pwm returns lies between PERIOD_NS/256 and
\* PERIOD_NS - PERIOD_NS/256, so it is never on the 0% or the 100% rail.
C4_DutyOffTheRails ==
    pulse_width # UNSET =>
        /\ pulse_width >= PWM_AUDIO_PERIOD_NS \div 256
        /\ pulse_width <= PWM_AUDIO_PERIOD_NS - PWM_AUDIO_PERIOD_NS \div 256

\* C4 witness: the lowest sample at full volume has been converted and came
\* out at the lower limit.
C4_Witness ==
    /\ ev = "convert"
    /\ sample = -32768
    /\ current_volume = PWM_AUDIO_MAX_VOLUME
    /\ pulse_width = PWM_AUDIO_PERIOD_NS \div 256

(***************************************************************************)
(* Claims about the stream reassembler                                     *)
(***************************************************************************)
\* C2: once data chunks of PACKET_SIZE bytes have carried all the bytes the
\* control chunk declared (800 bytes as two chunks of 400), exactly one
\* playback has been started, over the MAX_BLOCK_SIZE/2 samples of the whole
\* working buffer, and the working buffer is all zero.
C2_StreamPlaysOnce ==
    (/\ ptr2.base = "rx_buffer"
     /\ declared > 0
     /\ only_packets
     /\ delivered = declared)
        => /\ play_count = 1
           /\ play_samples = MAX_BLOCK_SIZE \div 2
           /\ rx_dirty = 0

\* C5: the write cursor of speak stays inside the working buffer, never
\* more than MAX_BLOCK_SIZE bytes past its start, and a data chunk never
\* moves it backwards.
C5_CursorInsideBuffer ==
    [][/\ ptr2'.base = "rx_buffer" => 2 * ptr2'.off <= MAX_BLOCK_SIZE
       /\ ev' = "speak_data" => ptr2'.off >= ptr2.off]_vars

(***************************************************************************)
(* Claims about the file store                                             *)
(***************************************************************************)
\* The path of audio file n on the card.
AudioFile(n) == FullPath(generate_new_audio_header(n))

\* C6: on a mounted store clear_audio_directory changes nothing and returns
\* 0 when a01.txt is the only file; when the files 1..5 exist it returns 0
\* and leaves a01.txt as the only file, with the read and the write cursor
\* on file 1.
C6_ClearDirectory ==
    [][(ev' = "clear_audio_directory" /\ sd_card_state = "MOUNTED") =>
          /\ fs_files = {AudioFile(1)} =>
                /\ ret' = 0
                /\ UNCHANGED <<fs_files, audio_dir, file_count,
                               current_read_file, current_write_file>>
          /\ fs_files = {AudioFile(n) : n \in 1..5} =>
                /\ ret' = 0
                /\ fs_files' = {AudioFile(1)}
                /\ current_read_file' = 1
                /\ current_write_file' = 1]_vars

\* The file operations that take a file number.
NumberedOps ==
    {"initialize_audio_file", "move_read_pointer", "move_write_pointer"}

\* C7: the file numbers 0 and 100 get no filename, no file is created for
\* them and no cursor selects them; file 1 is named audio/a01.txt and file
\* 42 is named audio/a42.txt.
C7_FilenameRule ==
    /\ (ev \in NumberedOps /\ arg \in {0, 100}) => last_header = NULL
    /\ (ev \in NumberedOps /\ arg = 1) => last_header = "audio/a01.txt"
    /\ (ev \in NumberedOps /\ arg = 42) => last_header = "audio/a42.txt"
    /\ AudioFile(0) \notin fs_files
    /\ AudioFile(100) \notin fs_files
    /\ current_read_file \notin {0, 100}
    /\ current_write_file \notin {0, 100}

(***************************************************************************)
(* Claims about initialisation errors and repeated requests                *)
(***************************************************************************)
\* C11: when a PWM channel device is not ready pwm_audio_init returns
\* -ENODEV and issues no PWM or GPIO write; whenever pwm_audio_init returns
\* an error the initialized flag stays false and the muted flag keeps its
\* value.
C11_InitFailureLeavesFlags ==
    [][/\ (ev' = "init" /\ ~is_initialized
              /\ (~dev_ready.pwm_l \/ ~dev_ready.pwm_r)) =>
             /\ ret' = -ENODEV
             /\ hw_log' = <<>>
             /\ UNCHANGED <<pwm_l, pwm_r, shutdown_pin>>
       /\ (ev' = "init" /\ ret' # 0) =>
             /\ ~is_initialized'
             /\ is_muted' = is_muted]_vars

\* C11 witness: pwm_audio_init has failed in the amplifier's initialisation,
\* after both silence writes were accepted.
C11_Witness ==
    /\ ev = "init"
    /\ ret # 0
    /\ ~is_initialized
    /\ pwm_l = PWM_SILENCE
    /\ pwm_r = PWM_SILENCE

\* C13: pwm_audio_mute on a muted engine and pwm_audio_unmute on an unmuted
\* one change nothing: the muted flag, the ramp and its timer stay as they
\* are and the timer is not started again.
C13_RepeatedRequestIgnored ==
    [][((ev' = "mute" /\ is_muted) \/ (ev' = "unmute" /\ ~is_muted)) =>
          /\ req' = "none"
          /\ UNCHANGED <<is_muted, timer_running, ramp_step, target_volume,
                         ramping_to_mute, current_volume, pwm_l, pwm_r>>]_vars

\* C13 witness: a second pwm_audio_mute has returned while the ramp of the
\* first one is running.
C13_Witness ==
    /\ ev = "mute"
    /\ req = "none"
    /\ is_initialized
    /\ is_muted
    /\ timer_running
    /\ ramping_to_mute
    /\ ramp_step > 0

(***************************************************************************)
(* Claims about playback                                                   *)
(***************************************************************************)
\* The three steps of a call of pwm_audio_play or pwm_audio_play_mono.
PlayEvents == {"play_begin", "play_step", "play_end"}

\* C12: pwm_audio_play and pwm_audio_play_mono write the PWM channels only
\* when the engine is initialized and not muted as the call starts: on an
\* engine that is not initialized they return -ENODEV and write nothing, on
\* a muted engine they return 0 and write nothing.
C12_PlayOnlyWhenReady ==
    [][/\ (ev' = "play_begin" /\ ~is_initialized) =>
             /\ ret' = -ENODEV
             /\ play_pc' = "idle"
             /\ hw_log' = <<>>
             /\ UNCHANGED <<pwm_l, pwm_r>>
       /\ (ev' = "play_begin" /\ is_initialized /\ is_muted) =>
             /\ ret' = 0
             /\ play_pc' = "idle"
             /\ hw_log' = <<>>
             /\ UNCHANGED <<pwm_l, pwm_r>>
       /\ (ev' = "play_begin" /\ play_pc' = "loop") =>
             is_initialized /\ ~is_muted
       /\ (ev' \in PlayEvents /\ hw_log' # <<>>) => play_pc = "loop"]_vars

\* C12 witness: pwm_audio_play has returned 0 on a muted engine without
\* entering its loop, for a buffer that holds samples.
C12_Witness ==
    /\ ev = "play_begin"
    /\ play_kind = "stereo"
    /\ Len(play_buf) >= 2
    /\ is_initialized
    /\ is_muted
    /\ ret = 0
    /\ play_pc = "idle"

\* C14: pwm_audio_mute sets the muted flag in the call itself, with no ramp
\* tick needed, only pwm_audio_unmute clears it, and a playback that starts
\* while the flag is set and the ramp is still running emits no sample.
C14_MuteSeenAtOnce ==
    [][/\ (ev' = "mute" /\ is_initialized) =>
             is_muted' /\ ramp_step' = ramp_step
       /\ (is_muted /\ ~is_muted') => ev' = "unmute"
       /\ (ev' = "play_begin" /\ is_muted /\ timer_running) =>
             /\ play_pc' = "idle"
             /\ play_emitted' = 0
             /\ hw_log' = <<>>]_vars

\* C14 witness: pwm_audio_play_mono was called in the middle of a mute ramp
\* and returned without entering its loop.
C14_Witness ==
    /\ ev = "play_begin"
    /\ play_kind = "mono"
    /\ play_buf # <<>>
    /\ is_muted
    /\ timer_running
    /\ ramping_to_mute
    /\ ramp_step > 0
    /\ play_pc = "idle"

\* Iterations the loop of a call makes over a buffer.
PlayFrames(kind, buffer) ==
    IF kind = "mono" THEN Len(buffer) ELSE Len(buffer) \div 2

\* C15: a pwm_audio_mute that comes while a playback is in its loop leaves
\* the playback where it is, and a playback that returns from its loop
\* returns 0 and has written both channels once for every iteration over
\* its block.
C15_MuteDoesNotCancelPlay ==
    [][/\ (ev' = "mute" /\ play_pc = "loop") => UNCHANGED play_vars
       /\ ev' = "play_end" =>
             /\ ret' = 0
             /\ play_emitted' = 2 * PlayFrames(play_kind, play_buf)]_vars

\* C15 witness: an iteration of pwm_audio_play_mono has written a sample to
\* both channels after the engine was muted during the call.
C15_Witness ==
    /\ ev = "play_step"
    /\ play_kind = "mono"
    /\ play_pc = "loop"
    /\ play_i > 1
    /\ is_muted
    /\ Len(hw_log) = 2

(***************************************************************************)
(* Claims about the byte count of the stream reassembler                   *)
(***************************************************************************)
\* C16: the bytes the reassembler still expects never exceed the total
\* length the last control chunk declared, whatever the lengths of the data
\* chunks, and they are exactly 0 when a data chunk triggers the playback.
C16_RemainingBounded ==
    [][(rx_buffer = "slab" /\ declared > 0 /\ ~wild_access') =>
           /\ current_length' <= declared'
           /\ play_count' = play_count + 1 => current_length' = 0]_vars

\* C17: after a control chunk that carries the 32-bit value N the bytes the
\* reassembler expects are N and the write cursor is at the start of the
\* working buffer.
C17_ControlChunkSetsLength ==
    ev = "speak_control" =>
        /\ current_length = arg
        /\ ptr2.off = 0
        /\ rx_buffer = "slab" => ptr2.base = "rx_buffer"

(***************************************************************************)
(* Claims about the amplifier's gain                                       *)
(***************************************************************************)
\* The writes of a log to one device, as the sequence of their values.
RECURSIVE WritesTo(_, _)
WritesTo(dev, log) ==
    IF log = <<>> THEN <<>>
    ELSE (IF Head(log).dev = dev THEN <<Head(log).val>> ELSE <<>>)
             \o WritesTo(dev, Tail(log))

\* The pin writes the claims expect for an effective gain level: one write
\* of bit 0 to gain pin 0 and one of bit 1 to gain pin 1, on the pins that
\* are ready, and no other write.
GainPinsWritten(level, log) ==
    /\ \A i \in DOMAIN log : log[i].dev \in {"gain0", "gain1"}
    /\ WritesTo("gain0", log) =
           IF dev_ready.gain0 THEN <<level % 2>> ELSE <<>>
    /\ WritesTo("gain1", log) =
           IF dev_ready.gain1 THEN <<(level \div 2) % 2>> ELSE <<>>

\* C18: pam8403_set_gain(level) writes bit 0 of the effective level to gain
\* pin 0 and bit 1 to gain pin 1, the effective level being level for 0..3
\* and 1 for every level above 3, so that level 7 gives the writes of level
\* 1; a rejected pin write is not reported and changes nothing else.
C18_GainCoercedAndSilent ==
    [][ev' = "set_gain" =>
          /\ GainPinsWritten(IF arg' \in 0..3 THEN arg' ELSE 1, hw_log')
          /\ arg' = 7 => GainPinsWritten(1, hw_log')
          /\ ret' = 0
          /\ UNCHANGED <<is_muted, is_initialized, current_volume, pwm_l,
                         pwm_r, shutdown_pin>>]_vars

\* C18 witness: pam8403_set_gain(7) has written both pins and the driver
\* has rejected one of the writes.
C18_Witness ==
    /\ ev = "set_gain"
    /\ arg = 7
    /\ Len(hw_log) = 2
    /\ \E i \in DOMAIN hw_log : ~hw_log[i].ok

\* C19: the volume handler selects 6 dB (level 0) for a volume byte below
\* 64, 15 dB (level 1) for 64..192 and 20 dB (level 2) above 192, so that
\* 0, 63, 64, 192, 193, 255 give 6, 6, 15, 15, 20, 20 dB, and it never
\* selects 24 dB (level 3).
C19_VolumeTiers ==
    [][ev' = "volume_write" =>
          /\ arg' < 64 => GainPinsWritten(0, hw_log')
          /\ (arg' >= 64 /\ arg' <= 192) => GainPinsWritten(1, hw_log')
          /\ arg' > 192 => GainPinsWritten(2, hw_log')
          /\ (dev_ready.gain0 /\ dev_ready.gain1) =>
                 ~GainPinsWritten(3, hw_log')]_vars

\* C19 witness: the handler has received the volume byte 64 and written the
\* pins of level 1.
C19_Witness ==
    /\ ev = "volume_write"
    /\ arg = 64
    /\ dev_ready.gain0
    /\ dev_ready.gain1
    /\ GainPinsWritten(1, hw_log)

(***************************************************************************)
(* Claims about the file cursors                                           *)
(***************************************************************************)
\* File n is on the store: the card is mounted and holds audio/aNN.txt.
OnStore(n) ==
    /\ n <= 99
    /\ sd_card_state = "MOUNTED"
    /\ AudioFile(n) \in fs_files

\* C20: move_read_pointer(n) and move_write_pointer(n) fail and leave the
\* file number of their cursor as it was when file n is not on the store;
\* they return 0 and set the file number of their cursor to n when it is.
\* Neither moves the other cursor.
C20_CursorMovesToExistingFile ==
    [][/\ ev' = "move_read_pointer" =>
             /\ OnStore(arg') => (ret' = 0 /\ current_read_file' = arg')
             /\ ~OnStore(arg') => (ret' # 0 /\ UNCHANGED current_read_file)
             /\ UNCHANGED current_write_file
       /\ ev' = "move_write_pointer" =>
             /\ OnStore(arg') => (ret' = 0 /\ current_write_file' = arg')
             /\ ~OnStore(arg') => (ret' # 0 /\ UNCHANGED current_write_file)
             /\ UNCHANGED current_read_file]_vars

\* C20 witness: move_read_pointer(42) has failed on a mounted card whose
\* read cursor had been moved to a file other than the first, and the cursor
\* is still there.
C20_Witness ==
    /\ ev = "move_read_pointer"
    /\ arg = 42
    /\ ret # 0
    /\ sd_card_state = "MOUNTED"
    /\ current_read_file = 0
    /\ AudioFile(0) \in fs_files

\* C21: in every reachable state of the file store the read cursor and the
\* write cursor each hold a file number from 1 to 99.
C21_CursorsInRange ==
    /\ current_read_file \in 1..99
    /\ current_write_file \in 1..99

\* C22: a file-store operation returns a non-success result whenever a
\* file system call it makes fails; for initialize_audio_file(n), whose one
\* file system call creates file n, a call that leaves file n missing has
\* not returned 0.
C22_FailuresSurfaced ==
    [][(/\ ev' = "initialize_audio_file"
        /\ arg' <= 99
        /\ AudioFile(arg') \notin fs_files') => ret' # 0]_vars

\* C23: when the disk initialises and the file system mounts, mounting
\* returns 0 with a01.txt on the card and both cursors on file 1, whether
\* the audio directory was absent, present without a01.txt or present with
\* it.
C23_MountCreatesAudioFiles ==
    [][(ev' = "sd_card_start" /\ card_present) =>
          /\ ret' = 0
          /\ sd_card_state' = "MOUNTED"
          /\ AudioFile(1) \in fs_files'
          /\ current_read_file' = 1
          /\ current_write_file' = 1]_vars

(***************************************************************************)
(* Claims about the files of the root directory                            *)
(***************************************************************************)
\* C24: after save_offset(x) has returned 0 the record file holds x as four
\* bytes, least significant first, and the get_offset() that follows
\* returns x, a number that is not negative.
C24_OffsetRoundTrip ==
    [][/\ (ev' = "save_offset" /\ ret' = 0) =>
             /\ InfoPath \in DOMAIN fs_data'
             /\ fs_data'[InfoPath] =
                    <<saved'.lo % 256, saved'.lo \div 256,
                      saved'.hi % 256, saved'.hi \div 256>>
       /\ (ev = "save_offset" /\ ret = 0 /\ ev' = "get_offset") =>
             /\ ret' >= 0
             /\ ret' \div 65536 = saved.hi
             /\ ret' % 65536 = saved.lo]_vars

\* C25: on a mounted card, when sd_card_create_file(f, c) has returned 0 the
\* sd_card_read_file(f, buf, size) that follows with size above the length
\* of c returns the length of c and leaves c in buf, whatever the card held
\* before.
C25_ContentRoundTrip ==
    [][(/\ ev = "create_file"
        /\ ret = 0
        /\ ev' = "read_file"
        /\ arg' > Len(written)) =>
           /\ ret' = Len(written)
           /\ read_back' = written]_vars

(***************************************************************************)
(* Claims about the memory pools                                           *)
(***************************************************************************)
\* The self-tests that hold a buffer.
RunningTests == {t \in TestThreads : tests[t].at # "idle"}

\* C26: at most BLOCK_COUNT = 2 buffers of a memory pool are outstanding;
\* the buffers of the self-tests' pool that are held are those of the
\* self-tests that are executing, so that none is held when none executes;
\* a self-test that cannot obtain a buffer returns -ENOMEM and plays
\* nothing.
C26_PoolBounded ==
    [][/\ audio_slab_used' \in 0..BLOCK_COUNT
       /\ mem_slab_used' \in 0..BLOCK_COUNT
       /\ audio_slab_used' = Cardinality(RunningTests')
       /\ (/\ ev' = "test_begin"
           /\ is_initialized
           /\ audio_slab_used = BLOCK_COUNT) =>
              /\ ret' = -ENOMEM
              /\ hw_log' = <<>>
              /\ UNCHANGED <<pwm_l, pwm_r, tests, audio_slab_used>>]_vars

\* C26 witness: a third self-test has asked for a buffer while two others
\* hold the two of the pool, and has returned -ENOMEM.
C26_Witness ==
    /\ ev = "test_begin"
    /\ ret = -ENOMEM
    /\ audio_slab_used = BLOCK_COUNT
    /\ Cardinality(RunningTests) = BLOCK_COUNT

(***************************************************************************)
(* Claims about the initialized flag and the codec                         *)
(***************************************************************************)
\* C27: while the engine is not initialized no operation other than
\* pwm_audio_init (mute, unmute, set_volume, the self-tests) changes the
\* volume or the muted flag or writes to a PWM channel.
C27_UninitializedIsInert ==
    [][(/\ ~is_initialized
        /\ ev' \in {"mute", "unmute", "set_volume", "sine_begin",
                    "sine_end"}) =>
           /\ UNCHANGED <<current_volume, is_muted, pwm_l, pwm_r>>
           /\ hw_log' = <<>>]_vars
\* C28: for every volume 0..180 the pulse width of sample 0 is the
\* mid-scale value 128 * PERIOD_NS / 256, half the period, and at volume 0
\* every sample gives that value.
C28_SilenceAtMidScale ==
    (pulse_width # UNSET /\ (sample = 0 \/ current_volume = 0)) =>
        /\ pulse_width = (128 * PWM_AUDIO_PERIOD_NS) \div 256
        /\ 2 * pulse_width = PWM_AUDIO_PERIOD_NS

\* C28 witness: the largest sample has been converted at volume 0 and came
\* out at half the period.
C28_Witness ==
    /\ ev = "convert"
    /\ sample = 32767
    /\ current_volume = 0
    /\ 2 * pulse_width = PWM_AUDIO_PERIOD_NS

\* C29: at every volume 1..180 the pulse width does not decrease when the
\* sample grows: a sample above the converted one gives a pulse width that
\* is at least the one computed.
C29_Monotone ==
    (pulse_width # UNSET /\ current_volume >= 1) =>
        \A s2 \in CodecSamples :
            sample <= s2 =>
                pulse_width <= audio_sample_to_pwm(s2, current_volume)

\* C29 witness: the sample -1 has been converted at the largest volume; its
\* negative product is cut toward zero and it gives the pulse width of
\* sample 0, below that of the largest sample.
C29_Witness ==
    /\ ev = "convert"
    /\ sample = -1
    /\ current_volume = PWM_AUDIO_MAX_VOLUME
    /\ pulse_width = audio_sample_to_pwm(0, current_volume)
    /\ pulse_width < audio_sample_to_pwm(32767, current_volume)

C31_MutedIdleIsSilent ==
    (is_initialized /\ is_muted /\ ~timer_running /\ play_pc = "idle")
        => /\ pwm_l = PWM_SILENCE
           /\ pwm_r = PWM_SILENCE

\* C32: once the ramp timer has ticked PWM_AUDIO_MUTE_RAMP_STEPS times after
\* an accepted pwm_audio_unmute(), with no other call in between, and the
\* ramp is complete, the volume is PWM_AUDIO_MAX_VOLUME.
C32_UnmuteRampReachesTarget ==
    (req = "unmute" /\ quiet_ticks = PWM_AUDIO_MUTE_RAMP_STEPS
        /\ ~timer_running)
        => current_volume = PWM_AUDIO_MAX_VOLUME

\* The volume an unmute ramp has reached at its current step.
UnmuteStepVolume ==
    (PWM_AUDIO_MAX_VOLUME * ramp_step) \div PWM_AUDIO_MUTE_RAMP_STEPS

\* An accepted pwm_audio_unmute() has cleared the muted flag and its ramp is
\* not complete.
UnmuteRampInFlight ==
    /\ is_initialized
    /\ ~is_muted
    /\ timer_running
    /\ (ramp_step = 0 \/ ~ramping_to_mute)

\* C33: while the ramp of an accepted pwm_audio_unmute() is in flight, the
\* first tick not yet delivered included, no sample of pwm_audio_play or
\* pwm_audio_play_mono is converted at a volume above the volume of the
\* ramp's current step.
C33_NoSampleAboveRamp ==
    [][(UnmuteRampInFlight /\ ev' = "play_step")
            => current_volume <= UnmuteStepVolume]_vars

\* C34: the ramp timer is not running any more once it has ticked
\* PWM_AUDIO_MUTE_RAMP_STEPS times after an accepted pwm_audio_mute() or
\* pwm_audio_unmute() with no other call in between, and whenever the timer
\* is stopped the step counter is 0.
C34_RampTerminates ==
    /\ (req \in {"mute", "unmute"} /\ timer_running)
          => quiet_ticks < PWM_AUDIO_MUTE_RAMP_STEPS
    /\ ~timer_running => ramp_step = 0

\* The timer has ticked PWM_AUDIO_MUTE_RAMP_STEPS times after an accepted
\* request and the last tick has stopped it.
C34_Witness ==
    /\ ev = "tick"
    /\ req \in {"mute", "unmute"}
    /\ quiet_ticks = PWM_AUDIO_MUTE_RAMP_STEPS
    /\ ~timer_running
    /\ ramp_step = 0

\* No block is being assembled: no control chunk has come yet, or a playback
\* has ended the block the last control chunk declared.
NoAssembly == declared = 0 \/ play_count > 0

\* C35: a data chunk handed to speak() while no block is being assembled
\* stores nothing through the write cursor and starts no playback (the steps
\* in which speak stores outside the working buffer are left aside).
C35_StrayChunkIgnored ==
    [][(ev' = "speak_data" /\ NoAssembly /\ ~wild_access')
            => /\ ptr2' = ptr2
               /\ play_count' = play_count
               /\ hw_log' = <<>>]_vars

\* C36: a move_write_pointer or move_read_pointer that fails leaves the path
\* write_to_file or read_audio_data opens on the file its cursor numbers,
\* when it was on that file before the call.
C36_FailedMoveKeepsTarget ==
    [][/\ (/\ ev' = "move_write_pointer"
           /\ ret' # 0
           /\ write_buffer = AudioFile(current_write_file))
             => write_buffer' = AudioFile(current_write_file')
       /\ (/\ ev' = "move_read_pointer"
           /\ ret' # 0
           /\ read_buffer = AudioFile(current_read_file))
             => read_buffer' = AudioFile(current_read_file')]_vars

\* C37: sd_card_start() returns 0 exactly when it leaves the card state
\* SD_CARD_MOUNTED, the state sd_card_get_state() and is_sd_on() report.
C37_StartResultMatchesState ==
    [][ev' = "sd_card_start"
          => (ret' = 0 <=> sd_card_state' = "MOUNTED")]_vars

\* C38: pwm_audio_test_sine_wave called on an initialized engine leaves the
\* volume as it found it: when it returns -ENOMEM the volume is the one
\* before the call, and when it returns after its playback the volume is the
\* one it found when it was called.
C38_SineTestRestoresVolume ==
    [][/\ (/\ ev' = "test_begin"
           /\ arg' # 0
           /\ is_initialized
           /\ ret' = -ENOMEM) => current_volume' = current_volume
       /\ \A t \in TestThreads :
             (/\ ev' = "test_end"
              /\ tests[t].at = "sine"
              /\ tests'[t].at = "idle")
                => current_volume' = tests[t].original_volume]_vars

\* C39: every index at which get_file_contents has stored into
\* file_num_array while the entries of the audio directory were counted at
\* mount is below the two elements of the array.
C39_FileNumIndexInBounds ==
    \A i \in file_num_writes : i < FILE_NUM_ARRAY_LEN

\* The events of a log of name buffers are in order: a buffer is read only
\* between its allocation and its k_free, is freed once, and none is left
\* allocated at the end (live: a buffer is allocated and not yet freed).
RECURSIVE HeapOrder(_, _)
HeapOrder(log, live) ==
    IF log = <<>> THEN ~live
    ELSE IF Head(log) = "alloc" THEN ~live /\ HeapOrder(Tail(log), TRUE)
    ELSE IF Head(log) = "use" THEN live /\ HeapOrder(Tail(log), live)
    ELSE live /\ HeapOrder(Tail(log), FALSE)

\* C40: every name buffer a file-store operation gets from
\* generate_new_audio_header is freed exactly once, and is not read after
\* it has been freed.
C40_NoUseAfterFree == HeapOrder(heap_log, FALSE)

====
